---- MODULE Spec2Model ----
(***************************************************************************)
(* Model of the task prioritization and JSON normalization pipeline of     *)
(* the email action-item agent (prioritizer.py, json_generator.py and the  *)
(* orchestration steps 4-6 of main.py).                                    *)
(*                                                                         *)
(* Texts are TLA+ strings; a character is a string of length one.          *)
(* Component scores are whole points 0..100.  importance_score is kept in  *)
(* hundredths of a point (5000 = 50.0) so that the weighted sums of the    *)
(* source are exact integers.  The source computes them in binary floating *)
(* point: the only effect on the values of this model is that              *)
(* 100*(0.4+0.3*0.6) evaluates to 58.00000000000001 and not 58.0.          *)
(***************************************************************************)
EXTENDS Integers, Sequences, FiniteSets, TLC

(***************************************************************************)
(* Text primitives (Python str methods used by the source).                *)
(***************************************************************************)
Ch(s, i) == SubSeq(s, i, i)

UpperLetters == "ABCDEFGHIJKLMNOPQRSTUVWXYZ"
LowerLetters == "abcdefghijklmnopqrstuvwxyz"
DigitChars == "0123456789"

IndexIn(alphabet, c) ==
    IF \E i \in 1..Len(alphabet) : Ch(alphabet, i) = c
    THEN CHOOSE i \in 1..Len(alphabet) : Ch(alphabet, i) = c
    ELSE 0

IsDigit(c) == IndexIn(DigitChars, c) > 0
DigitVal(c) == IndexIn(DigitChars, c) - 1
IsSpace(c) == c \in {" ", "\t", "\n", "\r"}
\* \w of the re module, restricted to ASCII
IsWordChar(c) ==
    \/ IndexIn(LowerLetters, c) > 0
    \/ IndexIn(UpperLetters, c) > 0
    \/ IsDigit(c)
    \/ c = "_"

LowerChar(c) ==
    IF IndexIn(UpperLetters, c) > 0 THEN Ch(LowerLetters, IndexIn(UpperLetters, c)) ELSE c

\* str.lower()
RECURSIVE Lower(_)
Lower(s) == IF s = "" THEN "" ELSE LowerChar(Ch(s, 1)) \o Lower(SubSeq(s, 2, Len(s)))

\* str.strip()
RECURSIVE LStrip(_)
LStrip(s) == IF s # "" /\ IsSpace(Ch(s, 1)) THEN LStrip(SubSeq(s, 2, Len(s))) ELSE s
RECURSIVE RStrip(_)
RStrip(s) == IF s # "" /\ IsSpace(Ch(s, Len(s))) THEN RStrip(SubSeq(s, 1, Len(s) - 1)) ELSE s
Strip(s) == RStrip(LStrip(s))

\* sub occurs in s at position i
StartsAt(s, i, sub) == i >= 1 /\ i + Len(sub) - 1 <= Len(s) /\ SubSeq(s, i, i + Len(sub) - 1) = sub

\* the `in` operator on two str
Contains(s, sub) == \E i \in 1..(Len(s) + 1) : StartsAt(s, i, sub)

\* \b of the re module at the gap before position i (1..Len(s)+1)
WordBoundary(s, i) ==
    LET before == i > 1 /\ IsWordChar(Ch(s, i - 1))
        after == i <= Len(s) /\ IsWordChar(Ch(s, i))
    IN  before # after

\* s[i..j-1] is whitespace only (\s*)
AllSpace(s, i, j) == \A k \in i..(j - 1) : IsSpace(Ch(s, k))

(***************************************************************************)
(* The texts of the model: every description and every deadline text that  *)
(* occurs in an input.  A function of a text that the source computes by   *)
(* scanning it is tabulated once over these sets (UrgencyOf, ExplicitOf,   *)
(* DeadlineParseOf, IsoParseOf, DateParseOf) by the operator that models   *)
(* the scan.                                                               *)
(***************************************************************************)
DescriptionTexts == {
    "p0 priority fix",
    "Critical bug fix needed ASAP",
    "Update documentation",
    "Review urgent report",
    "fix p3 typo",
    "Critical priority: server down today",
    "low priority cleanup",
    "HIGH  PRIORITY soon",
    "p1p2 important",
    "medium priority, time sensitive",
    "P0: login broken",
    "low priority but p0" }

DeadlineTexts == {
    "today",
    "Tomorrow ",
    "2024-01-10",
    "2024-01-15",
    "2024-01-15T10:00:00",
    "01/17/2024",
    "20/01/2024",
    "Jan 15, 2024",
    "15 Jan 2024",
    "Jan 25, 2024",
    "1 March 2024",
    "2024-02-01",
    "2024/01/15",
    "2024-01-15 10:00:00",
    "January 15, 2024",
    "0999-01-15",
    "01/02/2024",
    "02/30/2024",
    "13/13/2024",
    "31/04/2024",
    "next Friday" }

\* the table of F over S, as the set of pairs <<x, F(x)>>, and a look-up
Tabulate(S, F(_)) == {<<x, F(x)>> : x \in S}
Lookup(table, x) == (CHOOSE p \in table : p[1] = x)[2]

(***************************************************************************)
(* prioritizer.py: keyword and pattern tables                              *)
(***************************************************************************)
PRIORITY_CRITICAL == "critical"
PRIORITY_HIGH == "high"
PRIORITY_MEDIUM == "medium"
PRIORITY_LOW == "low"

\* dict in insertion order
URGENCY_KEYWORDS == <<
    [kw |-> "critical", score |-> 100],
    [kw |-> "asap", score |-> 90],
    [kw |-> "urgent", score |-> 85],
    [kw |-> "immediately", score |-> 85],
    [kw |-> "emergency", score |-> 95],
    [kw |-> "today", score |-> 80],
    [kw |-> "important", score |-> 70],
    [kw |-> "priority", score |-> 60],
    [kw |-> "soon", score |-> 50],
    [kw |-> "time-sensitive", score |-> 80],
    [kw |-> "time sensitive", score |-> 80] >>

\* dict in insertion order.  A pattern \b(a1|a2)\s*tail\b is kept as its
\* alternatives and its tail; \bcode\b has an empty tail and no \s*.
EXPLICIT_PRIORITY_PATTERNS == <<
    [alts |-> <<"critical", "p0">>, tail |-> "priority", score |-> 100],
    [alts |-> <<"high">>, tail |-> "priority", score |-> 75],
    [alts |-> <<"medium">>, tail |-> "priority", score |-> 50],
    [alts |-> <<"low">>, tail |-> "priority", score |-> 25],
    [alts |-> <<"p0">>, tail |-> "", score |-> 100],
    [alts |-> <<"p1">>, tail |-> "", score |-> 75],
    [alts |-> <<"p2">>, tail |-> "", score |-> 50],
    [alts |-> <<"p3">>, tail |-> "", score |-> 25] >>

\* re.search(pattern, s): some start i, alternative a and run of whitespace
\* up to j such that \b a \s* tail \b matches
ReSearch(pat, s) ==
    \E i \in 1..Len(s) : \E a \in 1..Len(pat.alts) :
        LET alt == pat.alts[a]
            e == i + Len(alt)
        IN  /\ WordBoundary(s, i)
            /\ StartsAt(s, i, alt)
            /\ IF pat.tail = ""
               THEN WordBoundary(s, e)
               ELSE \E j \in e..(Len(s) + 1) :
                        /\ AllSpace(s, e, j)
                        /\ StartsAt(s, j, pat.tail)
                        /\ WordBoundary(s, j + Len(pat.tail))

Max(a, b) == IF a >= b THEN a ELSE b
Min(a, b) == IF a <= b THEN a ELSE b

(***************************************************************************)
(* Python values.  t is the type; s the text of a str (or the name of a   *)
(* raised exception); n the number of an int or float (floats in          *)
(* hundredths), or the day ordinal of a datetime; m the time of day of a  *)
(* datetime in clock ticks.  "absent" marks a key a dict does not have.   *)
(***************************************************************************)
PyNone == [t |-> "none", s |-> "", n |-> 0, m |-> 0]
PyStr(x) == [t |-> "str", s |-> x, n |-> 0, m |-> 0]
PyInt(k) == [t |-> "int", s |-> "", n |-> k, m |-> 0]
PyFloat(h) == [t |-> "float", s |-> "", n |-> h, m |-> 0]
PyDateTime(day, tick) == [t |-> "datetime", s |-> "", n |-> day, m |-> tick]
PyBool(b) == [t |-> "bool", s |-> "", n |-> IF b THEN 1 ELSE 0, m |-> 0]
PyRaise(name) == [t |-> "exc", s |-> name, n |-> 0, m |-> 0]
Absent == [t |-> "absent", s |-> "", n |-> 0, m |-> 0]

IsExc(v) == v.t = "exc"

\* truth value of an object: `if not x`
Truthy(v) ==
    CASE v.t = "none" -> FALSE
      [] v.t = "str" -> v.s # ""
      [] v.t \in {"int", "float", "bool"} -> v.n # 0
      [] OTHER -> TRUE

\* one point of a score, in hundredths
Pt == 100

(***************************************************************************)
(* prioritizer.py: detect_urgency_keywords                                 *)
(***************************************************************************)
\* the loop keeping the weight of the keyword found last, without max
RECURSIVE UrgencyLoopLastFound(_, _, _)
UrgencyLoopLastFound(description_lower, k, max_score) ==
    IF k > Len(URGENCY_KEYWORDS) THEN max_score
    ELSE UrgencyLoopLastFound(description_lower, k + 1,
            IF Contains(description_lower, URGENCY_KEYWORDS[k].kw)
            THEN URGENCY_KEYWORDS[k].score * Pt
            ELSE max_score)

RECURSIVE UrgencyLoop(_, _, _)
UrgencyLoop(description_lower, k, max_score) ==
    IF k > Len(URGENCY_KEYWORDS) THEN max_score
    ELSE UrgencyLoop(description_lower, k + 1,
            IF Contains(description_lower, URGENCY_KEYWORDS[k].kw)
            THEN Max(max_score, URGENCY_KEYWORDS[k].score * Pt)
            ELSE max_score)

UrgencyOf == Tabulate(DescriptionTexts, LAMBDA s : UrgencyLoop(Lower(s), 1, 0))

detect_urgency_keywords(description) ==
    IF ~Truthy(description) THEN PyFloat(0)
    ELSE IF description.t # "str" THEN PyRaise("AttributeError")
    ELSE PyFloat(Lookup(UrgencyOf, description.s))

(***************************************************************************)
(* prioritizer.py: parse_explicit_priority                                 *)
(***************************************************************************)
\* the loop returning the highest weight among the patterns that match
RECURSIVE ExplicitLoopHighest(_, _)
ExplicitLoopHighest(description_lower, k) ==
    IF k > Len(EXPLICIT_PRIORITY_PATTERNS) THEN PyNone
    ELSE IF ReSearch(EXPLICIT_PRIORITY_PATTERNS[k], description_lower)
         THEN PyFloat(Max(EXPLICIT_PRIORITY_PATTERNS[k].score * Pt,
                          ExplicitLoopHighest(description_lower, k + 1).n))
         ELSE ExplicitLoopHighest(description_lower, k + 1)

RECURSIVE ExplicitLoop(_, _)
ExplicitLoop(description_lower, k) ==
    IF k > Len(EXPLICIT_PRIORITY_PATTERNS) THEN PyNone
    ELSE IF ReSearch(EXPLICIT_PRIORITY_PATTERNS[k], description_lower)
         THEN PyFloat(EXPLICIT_PRIORITY_PATTERNS[k].score * Pt)
         ELSE ExplicitLoop(description_lower, k + 1)

ExplicitOf == Tabulate(DescriptionTexts, LAMBDA s : ExplicitLoop(Lower(s), 1))

parse_explicit_priority(description) ==
    IF ~Truthy(description) THEN PyNone
    ELSE IF description.t # "str" THEN PyRaise("AttributeError")
    ELSE Lookup(ExplicitOf, description.s)

(***************************************************************************)
(* datetime: the proleptic Gregorian calendar                              *)
(***************************************************************************)
IsLeap(y) == (y % 4 = 0) /\ ((y % 100 # 0) \/ (y % 400 = 0))

DaysInMonth(y, m) ==
    IF m = 2 THEN (IF IsLeap(y) THEN 29 ELSE 28)
    ELSE IF m \in {4, 6, 9, 11} THEN 30 ELSE 31

RECURSIVE DaysBeforeMonth(_, _)
DaysBeforeMonth(y, m) == IF m <= 1 THEN 0 ELSE DaysBeforeMonth(y, m - 1) + DaysInMonth(y, m - 1)

\* date(y, m, d).toordinal(): 0001-01-01 is day 1
YmdOrdinal(y, m, d) ==
    LET p == y - 1
    IN  p * 365 + (p \div 4) - (p \div 100) + (p \div 400) + DaysBeforeMonth(y, m) + d

\* the datetime constructor raises ValueError outside these ranges
ValidDateTime(f) ==
    /\ f["Y"] \in 1..9999
    /\ f["m"] \in 1..12
    /\ f["d"] \in 1..DaysInMonth(f["Y"], f["m"])
    /\ f["H"] \in 0..23
    /\ f["M"] \in 0..59
    /\ f["S"] \in 0..59

\* the clock counts seconds; total_seconds() / 86400 is the time in days
SecondsPerDay == 86400

FieldNames == {"Y", "m", "d", "H", "M", "S"}
\* fields a datetime takes when the text does not give them
DefaultFields == [k \in FieldNames |-> IF k = "Y" THEN 1900 ELSE IF k \in {"m", "d"} THEN 1 ELSE 0]

\* a datetime value keeps its date as the number yyyymmdd
FieldsToDateTime(f) ==
    PyDateTime(f["Y"] * 10000 + f["m"] * 100 + f["d"],
               f["H"] * 3600 + f["M"] * 60 + f["S"])

Year(dt) == dt.n \div 10000
Month(dt) == (dt.n \div 100) % 100
Day(dt) == dt.n % 100
Ordinal(dt) == YmdOrdinal(Year(dt), Month(dt), Day(dt))

\* dt + timedelta(days=1)
AddOneDay(dt) ==
    IF Day(dt) < DaysInMonth(Year(dt), Month(dt)) THEN PyDateTime(dt.n + 1, dt.m)
    ELSE IF Month(dt) < 12 THEN PyDateTime(Year(dt) * 10000 + (Month(dt) + 1) * 100 + 1, dt.m)
    ELSE PyDateTime((Year(dt) + 1) * 10000 + 101, dt.m)

\* the clock k ticks after dt, for k below one day
AddTicks(dt, k) ==
    IF dt.m + k < SecondsPerDay THEN PyDateTime(dt.n, dt.m + k)
    ELSE AddOneDay(PyDateTime(dt.n, dt.m + k - SecondsPerDay))

\* a - b as a timedelta: whole days and seconds, the seconds of either sign
\* and less than a day
TimeDelta(a, b) == [days |-> Ordinal(a) - Ordinal(b), seconds |-> a.m - b.m]

\* a deadline at this very instant taken as overdue
DaysUntilNotPositive(delta) ==
    \/ delta.days < 0
    \/ delta.days = 0 /\ delta.seconds <= 0

\* delta.total_seconds() / 86400 < 0
DaysUntilNegative(delta) ==
    \/ delta.days < 0
    \/ delta.days = 0 /\ delta.seconds < 0

\* delta.total_seconds() / 86400 <= k, for whole k.  The seconds are less
\* than a day, so the days decide unless they are exactly k.
DaysUntilAtMost(delta, k) ==
    \/ delta.days < k
    \/ delta.days = k /\ delta.seconds <= 0

(***************************************************************************)
(* datetime.strptime(text, format)                                         *)
(***************************************************************************)
AllDigits(s, i, len) ==
    /\ i + len - 1 <= Len(s)
    /\ \A k \in i..(i + len - 1) : IsDigit(Ch(s, k))

RECURSIVE Num(_, _, _)
Num(s, i, len) == IF len = 0 THEN 0 ELSE Num(s, i, len - 1) * 10 + DigitVal(Ch(s, i + len - 1))

\* the ways a number of len digits in lo..hi can be read at position i
NumOpts(s, i, len, lo, hi) ==
    IF AllDigits(s, i, len) /\ Num(s, i, len) \in lo..hi
    THEN {[len |-> len, val |-> Num(s, i, len)]}
    ELSE {}

MonthNames == <<"january", "february", "march", "april", "may", "june", "july",
                "august", "september", "october", "november", "december">>
MonthAbbrs == <<"jan", "feb", "mar", "apr", "may", "jun", "jul",
                "aug", "sep", "oct", "nov", "dec">>

NameOpts(names, s, i) ==
    {[len |-> Len(names[k]), val |-> k] : k \in {k \in 1..Len(names) :
        /\ i + Len(names[k]) - 1 <= Len(s)
        /\ Lower(SubSeq(s, i, i + Len(names[k]) - 1)) = names[k]}}

\* the regular expression of each directive (_strptime.TimeRE)
DirectiveOpts(dir, s, i) ==
    CASE dir = "Y" -> NumOpts(s, i, 4, 0, 9999)
      [] dir = "m" -> NumOpts(s, i, 2, 1, 12) \cup NumOpts(s, i, 1, 1, 9)
      [] dir = "d" -> NumOpts(s, i, 2, 1, 31) \cup NumOpts(s, i, 1, 1, 9)
                      \cup (IF i <= Len(s) /\ Ch(s, i) = " "
                            THEN {[len |-> 2, val |-> o.val] : o \in NumOpts(s, i + 1, 1, 1, 9)}
                            ELSE {})
      [] dir = "H" -> NumOpts(s, i, 2, 0, 23) \cup NumOpts(s, i, 1, 0, 9)
      [] dir = "M" -> NumOpts(s, i, 2, 0, 59) \cup NumOpts(s, i, 1, 0, 9)
      [] dir = "S" -> NumOpts(s, i, 2, 0, 61) \cup NumOpts(s, i, 1, 0, 9)
      [] dir = "B" -> NameOpts(MonthNames, s, i)
      [] dir = "b" -> NameOpts(MonthAbbrs, s, i)
      [] OTHER -> {}

DirectiveField(dir) == IF dir \in {"B", "b"} THEN "m" ELSE dir

\* every reading of s[si..] by fmt[fi..] that uses up the whole text:
\* a directive reads one of its options, white space in the format reads
\* \s+, any other character reads itself (case-insensitively)
RECURSIVE StrptimeMatch(_, _, _, _, _)
StrptimeMatch(fmt, fi, s, si, acc) ==
    IF fi > Len(fmt) THEN (IF si = Len(s) + 1 THEN {acc} ELSE {})
    ELSE IF Ch(fmt, fi) = "%"
    THEN UNION {StrptimeMatch(fmt, fi + 2, s, si + o.len,
                    [acc EXCEPT ![DirectiveField(Ch(fmt, fi + 1))] = o.val]) :
                o \in DirectiveOpts(Ch(fmt, fi + 1), s, si)}
    ELSE IF IsSpace(Ch(fmt, fi))
    THEN UNION {StrptimeMatch(fmt, fi + 1, s, j, acc) :
                j \in {j \in (si + 1)..(Len(s) + 1) : AllSpace(s, si, j)}}
    ELSE IF si <= Len(s) /\ LowerChar(Ch(s, si)) = LowerChar(Ch(fmt, fi))
    THEN StrptimeMatch(fmt, fi + 1, s, si + 1, acc)
    ELSE {}

\* datetime.strptime: the datetime read, or ValueError
strptime(s, fmt) ==
    LET reads == {f \in StrptimeMatch(fmt, 1, s, 1, DefaultFields) : ValidDateTime(f)}
    IN  IF reads = {} THEN PyRaise("ValueError")
        ELSE FieldsToDateTime(CHOOSE f \in reads : TRUE)

(***************************************************************************)
(* prioritizer.py: parse_deadline_string.  now is the value datetime.now() *)
(* returns at line 172.                                                    *)
(***************************************************************************)
\* the list without the day-first format
DEADLINE_FORMATS_WithoutDayFirst == <<
    "%Y-%m-%d",
    "%Y-%m-%dT%H:%M:%S",
    "%Y-%m-%d %H:%M:%S",
    "%m/%d/%Y",
    "%B %d, %Y",
    "%b %d, %Y",
    "%d %B %Y",
    "%d %b %Y" >>

DEADLINE_FORMATS == <<
    "%Y-%m-%d",
    "%Y-%m-%dT%H:%M:%S",
    "%Y-%m-%d %H:%M:%S",
    "%m/%d/%Y",
    "%d/%m/%Y",
    "%B %d, %Y",
    "%b %d, %Y",
    "%d %B %Y",
    "%d %b %Y" >>

\* the loop without the return of line 195: the last format that reads the
\* text wins
RECURSIVE TryFormatsLastWins(_, _, _)
TryFormatsLastWins(formats, k, s) ==
    IF k > Len(formats) THEN PyNone
    ELSE LET parsed == strptime(s, formats[k])
             later == TryFormatsLastWins(formats, k + 1, s)
         IN  IF later # PyNone THEN later
             ELSE IF ~IsExc(parsed) THEN parsed ELSE PyNone

\* try the formats in order; ValueError moves on to the next
RECURSIVE TryFormats(_, _, _)
TryFormats(formats, k, s) ==
    IF k > Len(formats) THEN PyNone
    ELSE LET parsed == strptime(s, formats[k])
         IN  IF ~IsExc(parsed) THEN parsed ELSE TryFormats(formats, k + 1, s)

RelativeOf == Tabulate(DeadlineTexts, LAMBDA s : Strip(Lower(s)))
DeadlineParseOf == Tabulate(DeadlineTexts, LAMBDA s : TryFormats(DEADLINE_FORMATS, 1, Strip(s)))

parse_deadline_string(deadline_str, now) ==
    IF deadline_str = "" THEN PyNone
    ELSE LET deadline_lower == Lookup(RelativeOf, deadline_str)
         IN  IF deadline_lower = "today" THEN now
             ELSE IF deadline_lower = "tomorrow" THEN AddOneDay(now)
             ELSE Lookup(DeadlineParseOf, deadline_str)

(***************************************************************************)
(* prioritizer.py: calculate_deadline_proximity_score.  now_parse is the   *)
(* clock read inside parse_deadline_string, now the later read of line 122 *)
(***************************************************************************)
\* the thresholds of lines 129-144 taken as exclusive
ProximityBucketExclusive(days_until) ==
    IF DaysUntilNegative(days_until) THEN 100 * Pt
    ELSE IF DaysUntilAtMost(days_until, 0) THEN 95 * Pt
    ELSE IF days_until.days < 1 THEN 95 * Pt
    ELSE IF days_until.days < 3 THEN 85 * Pt
    ELSE IF days_until.days < 7 THEN 70 * Pt
    ELSE IF days_until.days < 14 THEN 50 * Pt
    ELSE IF days_until.days < 30 THEN 30 * Pt
    ELSE 10 * Pt

ProximityBucket(days_until) ==
    IF DaysUntilNegative(days_until) THEN 100 * Pt
    ELSE IF DaysUntilAtMost(days_until, 1) THEN 95 * Pt
    ELSE IF DaysUntilAtMost(days_until, 3) THEN 85 * Pt
    ELSE IF DaysUntilAtMost(days_until, 7) THEN 70 * Pt
    ELSE IF DaysUntilAtMost(days_until, 14) THEN 50 * Pt
    ELSE IF DaysUntilAtMost(days_until, 30) THEN 30 * Pt
    ELSE 10 * Pt

calculate_deadline_proximity_score(deadline, now_parse, now) ==
    IF deadline.t = "none" THEN PyFloat(0)
    ELSE IF deadline.t = "datetime" THEN PyFloat(ProximityBucket(TimeDelta(deadline, now)))
    ELSE IF deadline.t = "str"
    THEN LET deadline_dt == parse_deadline_string(deadline.s, now_parse)
         IN  IF deadline_dt.t = "none" THEN PyFloat(0)
             ELSE PyFloat(ProximityBucket(TimeDelta(deadline_dt, now)))
    ELSE PyFloat(0)

(***************************************************************************)
(* Elements of a task list.  A dict is t = "dict" with f giving the value  *)
(* of every key (Absent for a key it does not have); any other object      *)
(* (str, int, None) keeps its value in s and n and has no keys.            *)
(***************************************************************************)
Keys == {"description", "deadline", "task", "owner", "priority", "category",
         "source_email", "summary", "importance_score"}

NoKeys == [k \in Keys |-> Absent]
PyDict(f) == [t |-> "dict", s |-> "", n |-> 0, f |-> f]
PyObject(v) == [t |-> v.t, s |-> v.s, n |-> v.n, f |-> NoKeys]

\* dict.get(key, default)
DictGet(task, key, default) == IF task.f[key].t = "absent" THEN default ELSE task.f[key]

(***************************************************************************)
(* prioritizer.py: calculate_importance_score.  Weights are in hundredths. *)
(***************************************************************************)
URGENCY_WEIGHT == 30
DEADLINE_WEIGHT == 40
EXPLICIT_WEIGHT == 30

\* product of two numbers kept in hundredths
Mul(a, b) == (a * b) \div 100

\* lines 241-242 with the two shares of the explicit weight exchanged
adjusted_weights_exchanged(urgency_weight, deadline_weight, explicit_weight) ==
    [urgency |-> urgency_weight + Mul(explicit_weight, 60),
     deadline |-> deadline_weight + Mul(explicit_weight, 40)]

\* lines 241-242: the explicit weight goes 0.4 to urgency, 0.6 to deadline
adjusted_weights(urgency_weight, deadline_weight, explicit_weight) ==
    [urgency |-> urgency_weight + Mul(explicit_weight, 40),
     deadline |-> deadline_weight + Mul(explicit_weight, 60)]

\* line 250 without its test of the explicit priority
no_indicators_ignoring_explicit(total_score, urgency_score, deadline_score, explicit_score) ==
    urgency_score.n = 0 /\ deadline_score.n = 0

\* line 250: no indicator found at all
no_indicators(total_score, urgency_score, deadline_score, explicit_score) ==
    /\ total_score = 0
    /\ urgency_score.n = 0
    /\ deadline_score.n = 0
    /\ explicit_score.t = "none"

\* lines 236-253 without the neutral default of lines 250-251
combined_score_without_default(urgency_score, deadline_score, explicit_score, urgency_weight, deadline_weight, explicit_weight) ==
    LET adjusted == adjusted_weights(urgency_weight, deadline_weight, explicit_weight)
        total_score ==
            IF explicit_score.t # "none"
            THEN Mul(urgency_score.n, urgency_weight)
                 + Mul(deadline_score.n, deadline_weight)
                 + Mul(explicit_score.n, explicit_weight)
            ELSE Mul(urgency_score.n, adjusted.urgency)
                 + Mul(deadline_score.n, adjusted.deadline)
    IN  IF IsExc(urgency_score) THEN urgency_score
        ELSE IF IsExc(explicit_score) THEN explicit_score
        ELSE PyFloat(Min(100 * Pt, Max(0, total_score)))

\* lines 236-253 without the clamp of line 253 and with the whole explicit
\* weight added to both other weights
combined_score_unclamped(urgency_score, deadline_score, explicit_score, urgency_weight, deadline_weight, explicit_weight) ==
    LET total_score ==
            IF explicit_score.t # "none"
            THEN Mul(urgency_score.n, urgency_weight)
                 + Mul(deadline_score.n, deadline_weight)
                 + Mul(explicit_score.n, explicit_weight)
            ELSE Mul(urgency_score.n, urgency_weight + explicit_weight)
                 + Mul(deadline_score.n, deadline_weight + explicit_weight)
    IN  IF IsExc(urgency_score) THEN urgency_score
        ELSE IF IsExc(explicit_score) THEN explicit_score
        ELSE IF no_indicators(total_score, urgency_score, deadline_score, explicit_score)
        THEN PyFloat(50 * Pt)
        ELSE PyFloat(total_score)

\* lines 236-253: the weighted sum of the three scores, the neutral default
\* and the clamp.  A score that is an exception is raised at its call.
combined_score(urgency_score, deadline_score, explicit_score, urgency_weight, deadline_weight, explicit_weight) ==
    LET adjusted == adjusted_weights(urgency_weight, deadline_weight, explicit_weight)
        total_score ==
            IF explicit_score.t # "none"
            THEN Mul(urgency_score.n, urgency_weight)
                 + Mul(deadline_score.n, deadline_weight)
                 + Mul(explicit_score.n, explicit_weight)
            ELSE Mul(urgency_score.n, adjusted.urgency)
                 + Mul(deadline_score.n, adjusted.deadline)
    IN  IF IsExc(urgency_score) THEN urgency_score
        ELSE IF IsExc(explicit_score) THEN explicit_score
        ELSE IF no_indicators(total_score, urgency_score, deadline_score, explicit_score)
        THEN PyFloat(50 * Pt)
        ELSE PyFloat(Min(100 * Pt, Max(0, total_score)))

\* the three scores with the text read from the key task
calculate_importance_score_of_task(task, urgency_weight, deadline_weight, explicit_weight, now_parse, now) ==
    IF task.t # "dict" THEN PyRaise("AttributeError")
    ELSE combined_score(detect_urgency_keywords(DictGet(task, "task", PyStr(""))),
                        calculate_deadline_proximity_score(DictGet(task, "deadline", PyNone),
                                                           now_parse, now),
                        parse_explicit_priority(DictGet(task, "task", PyStr(""))),
                        urgency_weight, deadline_weight, explicit_weight)

\* lines 225-233: the three scores of the task
calculate_importance_score(task, urgency_weight, deadline_weight, explicit_weight, now_parse, now) ==
    IF task.t # "dict" THEN PyRaise("AttributeError")
    ELSE combined_score(detect_urgency_keywords(DictGet(task, "description", PyStr(""))),
                        calculate_deadline_proximity_score(DictGet(task, "deadline", PyNone),
                                                           now_parse, now),
                        parse_explicit_priority(DictGet(task, "description", PyStr(""))),
                        urgency_weight, deadline_weight, explicit_weight)

(***************************************************************************)
(* prioritizer.py: map_score_to_priority_level                             *)
(***************************************************************************)
\* the thresholds taken as exclusive
map_score_to_priority_level_exclusive(score) ==
    IF score.n > 80 * Pt THEN PRIORITY_CRITICAL
    ELSE IF score.n > 60 * Pt THEN PRIORITY_HIGH
    ELSE IF score.n > 30 * Pt THEN PRIORITY_MEDIUM
    ELSE PRIORITY_LOW

map_score_to_priority_level(score) ==
    IF score.n >= 80 * Pt THEN PRIORITY_CRITICAL
    ELSE IF score.n >= 60 * Pt THEN PRIORITY_HIGH
    ELSE IF score.n >= 30 * Pt THEN PRIORITY_MEDIUM
    ELSE PRIORITY_LOW

(***************************************************************************)
(* sorted(tasks, key=..., reverse=True): a stable sort, so elements with   *)
(* equal keys keep their order.  The result is the sequence of positions   *)
(* of the input list in output order.                                      *)
(***************************************************************************)
\* an unstable sort: position k goes before the positions of equal key
InsertDescTiesFirst(acc, k, keys) ==
    LET pos == Cardinality({j \in 1..Len(acc) : keys[acc[j]] > keys[k]})
    IN  SubSeq(acc, 1, pos) \o <<k>> \o SubSeq(acc, pos + 1, Len(acc))

\* place position k after every position whose key is not smaller
InsertDesc(acc, k, keys) ==
    LET pos == Cardinality({j \in 1..Len(acc) : keys[acc[j]] >= keys[k]})
    IN  SubSeq(acc, 1, pos) \o <<k>> \o SubSeq(acc, pos + 1, Len(acc))

RECURSIVE SortLoop(_, _, _)
SortLoop(keys, k, acc) ==
    IF k > Len(keys) THEN acc ELSE SortLoop(keys, k + 1, InsertDesc(acc, k, keys))

SortedDescending(keys) == SortLoop(keys, 1, <<>>)

(***************************************************************************)
(* prioritizer.py: prioritize_tasks.  clock is the time at the call and    *)
(* adv[k] the ticks that pass, while task k is scored, between the clock   *)
(* read of parse_deadline_string and the one of the proximity score.       *)
(* The result gives the input list as mutated in place, the returned list  *)
(* with the positions it was sorted from, the exception raised if any, the *)
(* two clock reads made for each task scored, and the time at the return.  *)
(***************************************************************************)
RECURSIVE ScoreLoop(_, _, _, _, _)
\* the task replaced by a new record of the description, the score and
\* the level
AssignScoreReplacing(tasks, k, clock, now, adv, reads, score) ==
    IF IsExc(score)
    THEN [tasks |-> tasks, exc |-> score.s, clock |-> now, reads |-> reads]
    ELSE ScoreLoop([tasks EXCEPT ![k].f =
                       [key \in Keys |->
                           CASE key = "importance_score" -> score
                             [] key = "priority" -> PyStr(map_score_to_priority_level(score))
                             [] key = "description" -> tasks[k].f[key]
                             [] OTHER -> Absent]],
                   k + 1, now, adv,
                   Append(reads, [now_parse |-> clock, now |-> now]))

\* lines 307-313: the score and the level are written into the task
AssignScore(tasks, k, clock, now, adv, reads, score) ==
    IF IsExc(score)
    THEN [tasks |-> tasks, exc |-> score.s, clock |-> now, reads |-> reads]
    ELSE ScoreLoop([tasks EXCEPT ![k].f =
                       [@ EXCEPT !["importance_score"] = score,
                                 !["priority"] = PyStr(map_score_to_priority_level(score))]],
                   k + 1, now, adv,
                   Append(reads, [now_parse |-> clock, now |-> now]))

ScoreLoop(tasks, k, clock, adv, reads) ==
    IF k > Len(tasks) THEN [tasks |-> tasks, exc |-> "", clock |-> clock, reads |-> reads]
    ELSE LET now == AddTicks(clock, adv[k])
         IN  AssignScore(tasks, k, clock, now, adv, reads,
                         calculate_importance_score(tasks[k], URGENCY_WEIGHT, DEADLINE_WEIGHT,
                                                    EXPLICIT_WEIGHT, clock, now))

SortKey(task) == DictGet(task, "importance_score", PyInt(0)).n

\* line 316: the scored list in descending order of score
SortTasks(tasks, scored, order) ==
    IF scored.exc # ""
    THEN [tasks |-> scored.tasks, ret |-> <<>>, order |-> <<>>,
          exc |-> scored.exc, clock |-> scored.clock, reads |-> scored.reads]
    ELSE [tasks |-> scored.tasks,
          ret |-> [i \in 1..Len(tasks) |-> scored.tasks[order[i]]],
          order |-> order, exc |-> "", clock |-> scored.clock,
          reads |-> scored.reads]

SortScored(tasks, scored) ==
    SortTasks(tasks, scored,
              SortedDescending([i \in 1..Len(tasks) |-> SortKey(scored.tasks[i])]))

prioritize_tasks(tasks, clock, adv) ==
    IF tasks = <<>>
    THEN [tasks |-> tasks, ret |-> <<>>, order |-> <<>>, exc |-> "", clock |-> clock,
          reads |-> <<>>]
    ELSE SortScored(tasks, ScoreLoop(tasks, 1, clock, adv, <<>>))

(***************************************************************************)
(* datetime.fromisoformat and strftime("%Y-%m-%d")                         *)
(***************************************************************************)
\* str.replace(old, new) for a one-character old
RECURSIVE Replace(_, _, _)
Replace(s, old, new) ==
    IF s = "" THEN ""
    ELSE (IF Ch(s, 1) = old THEN new ELSE Ch(s, 1)) \o Replace(SubSeq(s, 2, Len(s)), old, new)

\* the UTC offset [+-]HH:MM that may end the time part
IsoOffsetAt(s, i) ==
    /\ Len(s) = i + 5
    /\ Ch(s, i) \in {"+", "-"}
    /\ NumOpts(s, i + 1, 2, 0, 23) # {}
    /\ Ch(s, i + 3) = ":"
    /\ NumOpts(s, i + 4, 2, 0, 59) # {}

IsoEndAt(s, i) == i = Len(s) + 1 \/ IsoOffsetAt(s, i)

\* the time part HH[:MM[:SS]][offset] from position i: the fields read
IsoTimeReads(s, i, acc) ==
    LET hh == AllDigits(s, i, 2)
        mm == hh /\ StartsAt(s, i + 2, ":") /\ AllDigits(s, i + 3, 2)
        ss == mm /\ StartsAt(s, i + 5, ":") /\ AllDigits(s, i + 6, 2)
    IN  (IF hh /\ IsoEndAt(s, i + 2)
         THEN {[acc EXCEPT !["H"] = Num(s, i, 2)]} ELSE {})
        \cup
        (IF mm /\ IsoEndAt(s, i + 5)
         THEN {[acc EXCEPT !["H"] = Num(s, i, 2), !["M"] = Num(s, i + 3, 2)]} ELSE {})
        \cup
        (IF ss /\ IsoEndAt(s, i + 8)
         THEN {[acc EXCEPT !["H"] = Num(s, i, 2), !["M"] = Num(s, i + 3, 2),
                           !["S"] = Num(s, i + 6, 2)]} ELSE {})

\* datetime.fromisoformat for the extended format every Python 3 release
\* reads: YYYY-MM-DD, then optionally any one separator character and a
\* time part.  Raises ValueError for any other text.
fromisoformat(s) ==
    LET dateOk == /\ Len(s) >= 10
                  /\ AllDigits(s, 1, 4) /\ Ch(s, 5) = "-"
                  /\ AllDigits(s, 6, 2) /\ Ch(s, 8) = "-"
                  /\ AllDigits(s, 9, 2)
        date == [DefaultFields EXCEPT !["Y"] = Num(s, 1, 4), !["m"] = Num(s, 6, 2),
                                      !["d"] = Num(s, 9, 2)]
        reads == IF ~dateOk THEN {}
                 ELSE IF Len(s) = 10 THEN {date}
                 ELSE IsoTimeReads(s, 12, date)
        valid == {f \in reads : ValidDateTime(f)}
    IN  IF valid = {} THEN PyRaise("ValueError")
        ELSE FieldsToDateTime(CHOOSE f \in valid : TRUE)

\* str(int)
RECURSIVE NatToStr(_)
NatToStr(k) == IF k < 10 THEN Ch(DigitChars, k + 1)
               ELSE NatToStr(k \div 10) \o Ch(DigitChars, (k % 10) + 1)
IntToStr(k) == IF k < 0 THEN "-" \o NatToStr(0 - k) ELSE NatToStr(k)

RECURSIVE ZeroPad(_, _)
ZeroPad(s, width) == IF Len(s) >= width THEN s ELSE ZeroPad("0" \o s, width)

\* strftime("%Y-%m-%d").  The C library decides whether %Y pads a year
\* below 1000 with zeros (pad_year) or not (glibc).
strftime_ymd(dt, pad_year) ==
    (IF pad_year THEN ZeroPad(NatToStr(Year(dt)), 4) ELSE NatToStr(Year(dt)))
    \o "-" \o ZeroPad(NatToStr(Month(dt)), 2) \o "-" \o ZeroPad(NatToStr(Day(dt)), 2)

(***************************************************************************)
(* json_generator.py: format_date_iso8601                                  *)
(***************************************************************************)
\* the list without the year-first format with slashes
DATE_FORMATS_WithoutYearFirst == <<
    "%Y-%m-%d",
    "%m/%d/%Y",
    "%d/%m/%Y",
    "%B %d, %Y",
    "%b %d, %Y",
    "%d %B %Y",
    "%d %b %Y" >>

DATE_FORMATS == <<
    "%Y-%m-%d",
    "%m/%d/%Y",
    "%d/%m/%Y",
    "%Y/%m/%d",
    "%B %d, %Y",
    "%b %d, %Y",
    "%d %B %Y",
    "%d %b %Y" >>

\* str(date_value)
PyToStr(v) ==
    CASE v.t = "str" -> v.s
      [] v.t = "int" -> IntToStr(v.n)
      [] v.t = "none" -> "None"
      [] OTHER -> ""

\* the texts format_date_iso8601 returns for the deadlines of the model that
\* are not deadline texts of the model already
FormattedTexts == {
    "2024-01-02",
    "2024-01-14",
    "2024-01-17",
    "2024-01-20",
    "2024-01-25",
    "2024-03-01",
    "999-01-15",
    "5" }

\* the texts format_date_iso8601 is applied to
DateTexts == DeadlineTexts \cup FormattedTexts

IsoParseOf == Tabulate(DateTexts, LAMBDA s : fromisoformat(Replace(s, "Z", "+00:00")))
DateParseOf == Tabulate(DateTexts, LAMBDA s : TryFormats(DATE_FORMATS, 1, Strip(s)))

format_date_iso8601(date_value, pad_year) ==
    IF date_value.t = "none" \/ date_value = PyStr("") THEN PyNone
    ELSE IF date_value.t = "datetime" THEN PyStr(strftime_ymd(date_value, pad_year))
    ELSE
    LET iso == Lookup(IsoParseOf, date_value.s)
        parsed_date == Lookup(DateParseOf, date_value.s)
    IN  IF date_value.t = "str" /\ ~IsExc(iso) THEN PyStr(strftime_ymd(iso, pad_year))
        ELSE IF date_value.t = "str" /\ parsed_date.t # "none"
        THEN PyStr(strftime_ymd(parsed_date, pad_year))
        ELSE IF Truthy(date_value) THEN PyStr(PyToStr(date_value)) ELSE PyNone

(***************************************************************************)
(* json_generator.py: validate_task_structure                              *)
(***************************************************************************)
\* the required fields without the summary
REQUIRED_FIELDS_WithoutSummary == <<"task", "owner", "deadline", "priority", "category",
                                    "source_email">>

REQUIRED_FIELDS == <<"task", "owner", "deadline", "priority", "category",
                     "source_email", "summary">>

\* `field in task`: a key of a dict, a substring of a str; TypeError for an
\* object that is not a container
FieldIn(field, task) ==
    CASE task.t = "dict" -> PyBool(task.f[field].t # "absent")
      [] task.t = "str" -> PyBool(Contains(task.s, field))
      [] OTHER -> PyRaise("TypeError")

RECURSIVE ValidateLoop(_, _)
ValidateLoop(task, k) ==
    IF k > Len(REQUIRED_FIELDS) THEN PyBool(TRUE)
    ELSE LET present == FieldIn(REQUIRED_FIELDS[k], task)
         IN  IF IsExc(present) THEN present
             ELSE IF ~Truthy(present) THEN PyBool(FALSE)
             ELSE ValidateLoop(task, k + 1)

validate_task_structure(task) == ValidateLoop(task, 1)

(***************************************************************************)
(* json_generator.py: build_json_structure.  The result gives the list     *)
(* returned and the exception raised, if any.                              *)
(***************************************************************************)
\* the output record without its summary
FormatTaskWithoutSummary(task, pad_year) ==
    PyDict([k \in Keys |->
        CASE k = "deadline" -> format_date_iso8601(DictGet(task, "deadline", PyNone), pad_year)
          [] k \in {"task", "owner", "priority", "category", "source_email"} ->
                DictGet(task, k, PyStr(""))
          [] OTHER -> Absent])

FormatTask(task, pad_year) ==
    PyDict([k \in Keys |->
        CASE k = "deadline" -> format_date_iso8601(DictGet(task, "deadline", PyNone), pad_year)
          [] k \in {"task", "owner", "priority", "category", "source_email", "summary"} ->
                DictGet(task, k, PyStr(""))
          [] OTHER -> Absent])

\* the loop with break in the place of continue
RECURSIVE BuildLoopBreak(_, _, _, _)
BuildLoopBreak(sorted_tasks, k, formatted_tasks, pad_year) ==
    IF k > Len(sorted_tasks) THEN [ret |-> formatted_tasks, exc |-> ""]
    ELSE LET task == sorted_tasks[k]
             valid == validate_task_structure(task)
         IN  IF IsExc(valid) THEN [ret |-> <<>>, exc |-> valid.s]
             ELSE IF ~Truthy(valid) THEN [ret |-> formatted_tasks, exc |-> ""]
             ELSE IF task.t # "dict" THEN [ret |-> <<>>, exc |-> "AttributeError"]
             ELSE BuildLoopBreak(sorted_tasks, k + 1,
                                 Append(formatted_tasks, FormatTask(task, pad_year)), pad_year)

RECURSIVE BuildLoop(_, _, _, _)
BuildLoop(sorted_tasks, k, formatted_tasks, pad_year) ==
    IF k > Len(sorted_tasks) THEN [ret |-> formatted_tasks, exc |-> ""]
    ELSE LET task == sorted_tasks[k]
             valid == validate_task_structure(task)
         IN  IF IsExc(valid) THEN [ret |-> <<>>, exc |-> valid.s]
             ELSE IF ~Truthy(valid)
             THEN BuildLoop(sorted_tasks, k + 1, formatted_tasks, pad_year)
             ELSE IF task.t # "dict" THEN [ret |-> <<>>, exc |-> "AttributeError"]
             ELSE BuildLoop(sorted_tasks, k + 1,
                            Append(formatted_tasks, FormatTask(task, pad_year)), pad_year)

build_json_structure(sorted_tasks, pad_year) == BuildLoop(sorted_tasks, 1, <<>>, pad_year)

(***************************************************************************)
(* action_extractor.py: validate_action_item.  The result is the dict      *)
(* returned, None, or the exception raised.                                *)
(***************************************************************************)
VALID_CATEGORIES == <<"meeting", "deadline", "follow-up", "approval", "review">>
VALID_PRIORITIES == <<"high", "medium", "low">>
DEFAULT_PRIORITY == "medium"
DEFAULT_CATEGORY == "follow-up"

\* the texts of the fields of the items of the model
TaskTexts == {
    "p0 priority fix",
    "Review urgent report",
    "Update documentation",
    "Schedule a sync with Bob",
    "Prepare discussion notes",
    "meet Bob",
    "Submit review of call",
    "Submit the report",
    "Approve budget and review plan",
    "Get sign-off from legal",
    "Get sign off from legal",
    "Check feedback",
    "  Email Carol  ",
    "   " }

PriorityTexts == {"high", "HIGH", "Low", "urgent", "critical", ""}
CategoryTexts == {"meeting", "Review", "other", ""}
OwnerTexts == {"Alice", " NULL ", "2024-01-15", "null", "today", "next Friday", "2024-02-01"}

ItemTexts == TaskTexts \cup PriorityTexts \cup CategoryTexts \cup OwnerTexts
             \cup {"", "5", "None", DEFAULT_PRIORITY, DEFAULT_CATEGORY}

InSeq(x, seq) == \E i \in 1..Len(seq) : seq[i] = x

\* any(word in task_lower for word in words)
AnyWordIn(words, task_lower) == \E i \in 1..Len(words) : Contains(task_lower, words[i])

\* lines 141-150 with the test for a deadline made before the one for a
\* meeting
infer_category_deadline_first(task_lower) ==
    IF AnyWordIn(<<"due", "deadline", "submit", "deliver">>, task_lower) THEN "deadline"
    ELSE IF AnyWordIn(<<"meet", "call", "discussion", "sync">>, task_lower) THEN "meeting"
    ELSE IF AnyWordIn(<<"approve", "authorization", "sign off">>, task_lower) THEN "approval"
    ELSE IF AnyWordIn(<<"review", "feedback", "check">>, task_lower) THEN "review"
    ELSE DEFAULT_CATEGORY

\* lines 141-150: the category inferred from the keywords of the task
infer_category(task_lower) ==
    IF AnyWordIn(<<"meet", "call", "discussion", "sync">>, task_lower) THEN "meeting"
    ELSE IF AnyWordIn(<<"due", "deadline", "submit", "deliver">>, task_lower) THEN "deadline"
    ELSE IF AnyWordIn(<<"approve", "authorization", "sign off">>, task_lower) THEN "approval"
    ELSE IF AnyWordIn(<<"review", "feedback", "check">>, task_lower) THEN "review"
    ELSE DEFAULT_CATEGORY

StripOf == Tabulate(ItemTexts, Strip)
LowerOf == Tabulate(ItemTexts, Lower)
StripLowerOf == Tabulate(ItemTexts, LAMBDA s : Lower(Strip(s)))
InferOf == Tabulate(TaskTexts, LAMBDA s : infer_category(Lower(Strip(s))))

\* lines 123-128: value if value and str(value).strip().lower() != 'null'
\* else None
null_to_none(value) ==
    IF Truthy(value) /\ Lookup(StripLowerOf, PyToStr(value)) # "null" THEN value ELSE PyNone

\* lines 131-134, given item.get('priority', DEFAULT_PRIORITY)
normalize_priority(priority) ==
    IF priority.t # "str" THEN PyRaise("AttributeError")
    ELSE IF InSeq(Lookup(LowerOf, priority.s), VALID_PRIORITIES)
    THEN PyStr(Lookup(LowerOf, priority.s))
    ELSE PyStr(DEFAULT_PRIORITY)

\* lines 137-152, given item.get('category', DEFAULT_CATEGORY) and the task
\* as the item has it
normalize_category(category, task) ==
    IF category.t # "str" THEN PyRaise("AttributeError")
    ELSE IF InSeq(Lookup(LowerOf, category.s), VALID_CATEGORIES)
    THEN PyStr(Lookup(LowerOf, category.s))
    ELSE PyStr(Lookup(InferOf, task.s))

validated_item(task, owner, deadline, priority, category) ==
    IF IsExc(priority) THEN priority
    ELSE IF IsExc(category) THEN category
    ELSE PyDict([k \in Keys |->
            CASE k = "task" -> task
              [] k = "owner" -> owner
              [] k = "deadline" -> deadline
              [] k = "priority" -> priority
              [] k = "category" -> category
              [] OTHER -> Absent])

validate_action_item(item) ==
    IF DictGet(item, "task", PyStr("")).t # "str" THEN PyRaise("AttributeError")
    ELSE IF Lookup(StripOf, DictGet(item, "task", PyStr("")).s) = "" THEN PyNone
    ELSE validated_item(PyStr(Lookup(StripOf, DictGet(item, "task", PyStr("")).s)),
                        null_to_none(DictGet(item, "owner", PyNone)),
                        null_to_none(DictGet(item, "deadline", PyNone)),
                        normalize_priority(DictGet(item, "priority", PyStr(DEFAULT_PRIORITY))),
                        normalize_category(DictGet(item, "category", PyStr(DEFAULT_CATEGORY)),
                                           DictGet(item, "task", PyStr(""))))

(***************************************************************************)
(* action_extractor.py: validate_and_normalize and extract_action_items.   *)
(* action_items is the list parsed_data['action_items'] of the response.   *)
(***************************************************************************)
RECURSIVE ValidateLoopItems(_, _, _)
\* lines 177-179: a valid item is kept, None is left out, an exception
\* ends the loop
KeepValidated(action_items, k, validated_items, validated) ==
    IF IsExc(validated) THEN [ret |-> <<>>, exc |-> validated.s]
    ELSE IF validated.t = "none" THEN ValidateLoopItems(action_items, k + 1, validated_items)
    ELSE ValidateLoopItems(action_items, k + 1, Append(validated_items, validated))

\* lines 174-181
ValidateLoopItems(action_items, k, validated_items) ==
    IF k > Len(action_items) THEN [ret |-> validated_items, exc |-> ""]
    ELSE IF action_items[k].t # "dict"
    THEN ValidateLoopItems(action_items, k + 1, validated_items)
    ELSE KeepValidated(action_items, k, validated_items,
                       validate_action_item(action_items[k]))

validate_and_normalize(action_items) == ValidateLoopItems(action_items, 1, <<>>)

\* lines 259-267: the validated items, or the empty list when anything was
\* raised
ItemsOrEmpty(r) == IF r.exc # "" THEN <<>> ELSE r.ret

extract_action_items(action_items) == ItemsOrEmpty(validate_and_normalize(action_items))

(***************************************************************************)
(* Inputs: the task records handed to the pipeline                         *)
(***************************************************************************)
\* longest task list
MaxTasks == 2
\* most ticks the clock advances between two reads
MaxAdvance == 1

\* a task dict: description and deadline as given (Absent: no such key),
\* the other output fields present unless named in missing
Task(description, deadline, missing) ==
    PyDict([k \in Keys |->
        IF k \in missing THEN Absent
        ELSE CASE k = "description" -> description
               [] k = "deadline" -> deadline
               [] k = "task" -> IF description.t = "str" THEN description ELSE PyStr("Do it")
               [] k = "owner" -> PyStr("Alice")
               [] k = "priority" -> PyStr("medium")
               [] k = "category" -> PyStr("review")
               [] k = "source_email" -> PyStr("email_001.txt")
               [] k = "summary" -> PyStr("Summary")
               [] OTHER -> Absent])

Descriptions == {PyStr(s) : s \in DescriptionTexts} \cup {PyStr(""), PyNone, Absent}

Deadlines ==
    {PyStr(s) : s \in DeadlineTexts}
    \cup {PyStr(""), PyNone, Absent, PyInt(5), PyDateTime(20240114, 86399)}

\* the times at which a run starts
StartInstants == {
    PyDateTime(20240110, 43200),
    PyDateTime(20240114, 86399),
    PyDateTime(20240115, 0) }

\* the times at which a run of the whole pipeline starts
PipelineInstants == {
    PyDateTime(20240114, 86399),
    PyDateTime(20240115, 0) }

\* the records task lists are made of
TaskPool == {
    Task(PyStr("p0 priority fix"), PyStr("today"), {}),
    Task(PyStr("p0 priority fix"), PyStr("2024-02-01"), {}),
    Task(PyStr("Critical bug fix needed ASAP"), Absent, {}),
    Task(PyStr("Critical priority: server down today"), PyStr("2024-01-10"), {}),
    Task(PyStr("Critical priority: server down today"), PyStr("Jan 25, 2024"), {}),
    Task(PyStr("Update documentation"), PyStr("2024-02-01"), {}),
    Task(PyStr("Update documentation"), PyNone, {"summary"}),
    Task(PyStr("Update documentation"), PyStr("2024/01/15"), {}),
    Task(PyStr("fix p3 typo"), PyStr("next Friday"), {}),
    Task(PyInt(5), PyNone, {}),
    PyObject(PyStr("call Bob")),
    PyObject(PyInt(5)) }

RECURSIVE ListsOf(_, _)
ListsOf(pool, len) ==
    IF len = 0 THEN {<<>>}
    ELSE {Append(l, e) : l \in ListsOf(pool, len - 1), e \in pool}

ListsUpTo(pool, len) == UNION {ListsOf(pool, k) : k \in 0..len}

(***************************************************************************)
(* State.  tasks is the list object handed to prioritize_tasks (mutated in *)
(* place), input_tasks its content at the start; stage is the position of  *)
(* the pipeline; exc the exception the last call raised ("" for none).     *)
(***************************************************************************)
VARIABLES input_tasks, tasks, clock, reads, pad_year, stage, sorted_tasks, order,
          build_input, built_from, formatted_tasks, exc, renormalized, call_arg, calls,
          action_items

vars == <<input_tasks, tasks, clock, reads, pad_year, stage, sorted_tasks, order,
          build_input, built_from, formatted_tasks, exc, renormalized, call_arg, calls,
          action_items>>

\* the variables of the pipeline, which a call of a single function leaves
pipeline_vars == <<input_tasks, tasks, reads, stage, sorted_tasks, order,
                   build_input, built_from, formatted_tasks, exc, renormalized,
                   action_items>>

InitWith(lists, instants) ==
    /\ input_tasks \in lists
    /\ tasks = input_tasks
    /\ clock \in instants
    /\ reads = <<>>
    /\ pad_year \in BOOLEAN
    /\ stage = "input"
    /\ sorted_tasks = <<>>
    /\ order = <<>>
    /\ build_input = <<>>
    /\ built_from = ""
    /\ formatted_tasks = <<>>
    /\ exc = ""
    /\ renormalized = <<>>
    /\ call_arg = PyNone
    /\ calls = <<>>
    /\ action_items = <<>>

Init == InitWith(ListsUpTo(TaskPool, MaxTasks), PipelineInstants)

\* main.py step 5 / a call of prioritize_tasks(tasks)
PrioritizeReturns(r) ==
    /\ tasks' = r.tasks
    /\ sorted_tasks' = r.ret
    /\ order' = r.order
    /\ exc' = r.exc
    /\ clock' = r.clock
    /\ reads' = r.reads
    /\ stage' = IF r.exc = "" THEN "prioritized" ELSE "prioritize_raised"

PrioritizeTasks ==
    /\ stage = "input"
    /\ \E adv \in [1..Len(tasks) -> 0..MaxAdvance] :
        PrioritizeReturns(prioritize_tasks(tasks, clock, adv))
    /\ UNCHANGED <<input_tasks, pad_year, build_input, built_from, formatted_tasks,
                   renormalized, call_arg, calls, action_items>>

\* main.py step 6 / a call of build_json_structure: on the ranked list, on
\* the list as it is when prioritize_tasks raised (the fallback of main), or
\* on a list that was never ranked
BuildReturns(arg, r) ==
    /\ build_input' = arg
    /\ built_from' = stage
    /\ formatted_tasks' = r.ret
    /\ exc' = r.exc
    /\ stage' = IF r.exc = "" THEN "built" ELSE "build_raised"

BuildJsonStructure ==
    /\ stage \in {"input", "prioritized", "prioritize_raised"}
    /\ LET arg == IF stage = "prioritized" THEN sorted_tasks ELSE tasks
       IN  BuildReturns(arg, build_json_structure(arg, pad_year))
    /\ UNCHANGED <<input_tasks, tasks, clock, reads, pad_year, sorted_tasks, order,
                   renormalized, call_arg, calls, action_items>>

Next == PrioritizeTasks \/ BuildJsonStructure

\* a call of build_json_structure on the list it returned
BuildAgainReturns(r) ==
    /\ renormalized' = r.ret
    /\ exc' = r.exc
    /\ stage' = IF r.exc = "" THEN "rebuilt" ELSE "rebuild_raised"

BuildJsonStructureAgain ==
    /\ stage = "built"
    /\ BuildAgainReturns(build_json_structure(formatted_tasks, pad_year))
    /\ UNCHANGED <<input_tasks, tasks, clock, reads, pad_year, sorted_tasks, order,
                   build_input, built_from, formatted_tasks, call_arg, calls, action_items>>

Spec == Init /\ [][Next]_vars

\* scoring of single tasks over every pair of description and deadline
InitScore == InitWith({<<Task(d, dl, {})>> : d \in Descriptions, dl \in Deadlines},
                      StartInstants)

SpecScore == InitScore /\ [][Next]_vars

\* the example of the docstring of prioritize_tasks (lines 297-301); the key
\* "responsible" of its records is read by no code and left out
DocstringExample == <<
    Task(PyStr("Review urgent report"), Absent,
         {"task", "owner", "priority", "category", "source_email", "summary"}),
    Task(PyStr("Update documentation"), PyStr("2024-02-01"),
         {"task", "owner", "priority", "category", "source_email", "summary"}),
    Task(PyStr("Critical bug fix needed ASAP"), Absent,
         {"task", "owner", "priority", "category", "source_email", "summary"}) >>

\* current dates long before, shortly before, at and after the deadline of
\* the example
ExampleInstants == {
    PyDateTime(20231201, 43200),
    PyDateTime(20240110, 43200),
    PyDateTime(20240120, 43200),
    PyDateTime(20240126, 43200),
    PyDateTime(20240130, 43200),
    PyDateTime(20240131, 86399),
    PyDateTime(20240201, 43200),
    PyDateTime(20261103, 43200) }

InitExample == InitWith({DocstringExample}, ExampleInstants)

SpecExample == InitExample /\ [][Next]_vars

\* deadline values of every kind format_date_iso8601 tells apart
NormalizeDeadlines == {
    PyStr("2024-01-15"),
    PyStr("Jan 15, 2024"),
    PyStr("2024/01/15"),
    PyStr("2024-01-15T10:00:00"),
    PyStr("20/01/2024"),
    PyStr("0999-01-15"),
    PyStr("next Friday"),
    PyStr("today"),
    PyStr(""),
    PyNone,
    PyInt(5),
    PyDateTime(20240114, 86399) }

NormalizePool ==
    {Task(PyStr("Update documentation"), deadline, {}) : deadline \in NormalizeDeadlines}
    \cup {Task(PyStr("Update documentation"), PyNone, {"summary"})}

\* build_json_structure applied to a list and then to the list it returned
InitNormalize == InitWith(ListsUpTo(NormalizePool, MaxTasks), {PyDateTime(20240115, 0)})

NextNormalize == BuildJsonStructure \/ BuildJsonStructureAgain

SpecNormalize == InitNormalize /\ [][NextNormalize]_vars

(***************************************************************************)
(* Calls of single functions.  call_arg is the argument under study; every *)
(* function that takes such an argument is called on it at most once, and  *)
(* calls keeps, for each call made, the function, the argument, the value  *)
(* returned (or the exception raised) and the clock reads of the call.     *)
(***************************************************************************)
Called(fn) == \E k \in 1..Len(calls) : calls[k].fn = fn

Call(fn, ret, now_parse, now) ==
    [fn |-> fn, arg |-> call_arg, ret |-> ret, now_parse |-> now_parse, now |-> now]

\* descriptions and deadlines a function is called on
CallDescriptions == {PyStr(s) : s \in DescriptionTexts} \cup {PyStr(""), PyNone}
CallDeadlines == Deadlines \ {Absent}

\* the times at which a single function is called: the last tick before the
\* deadline 2024-01-15 00:00:00 is 0, 1, 3, 7, 14 and 30 days away
CallInstants == {
    PyDateTime(20240114, 86399),
    PyDateTime(20240113, 86399),
    PyDateTime(20240111, 86399),
    PyDateTime(20240107, 86399),
    PyDateTime(20231231, 86399),
    PyDateTime(20231215, 86399) }

DetectUrgencyKeywords ==
    /\ stage = "call"
    /\ call_arg \in CallDescriptions
    /\ ~Called("detect_urgency_keywords")
    /\ calls' = Append(calls, Call("detect_urgency_keywords",
                                   detect_urgency_keywords(call_arg), clock, clock))
    /\ UNCHANGED <<clock, pad_year, call_arg, pipeline_vars>>

ParseExplicitPriority ==
    /\ stage = "call"
    /\ call_arg \in CallDescriptions
    /\ ~Called("parse_explicit_priority")
    /\ calls' = Append(calls, Call("parse_explicit_priority",
                                   parse_explicit_priority(call_arg), clock, clock))
    /\ UNCHANGED <<clock, pad_year, call_arg, pipeline_vars>>

\* parse_deadline_string takes a str; it reads the clock once
ParseDeadlineString ==
    /\ stage = "call"
    /\ call_arg \in CallDeadlines
    /\ call_arg.t = "str"
    /\ ~Called("parse_deadline_string")
    /\ calls' = Append(calls, Call("parse_deadline_string",
                                   parse_deadline_string(call_arg.s, clock), clock, clock))
    /\ UNCHANGED <<clock, pad_year, call_arg, pipeline_vars>>

\* the clock advances between the read of parse_deadline_string and the
\* read of line 122
CalculateDeadlineProximityScore ==
    /\ stage = "call"
    /\ call_arg \in CallDeadlines
    /\ ~Called("calculate_deadline_proximity_score")
    /\ \E adv \in 0..MaxAdvance :
          /\ calls' = Append(calls, Call("calculate_deadline_proximity_score",
                  calculate_deadline_proximity_score(call_arg, clock, AddTicks(clock, adv)),
                  clock, AddTicks(clock, adv)))
          /\ clock' = AddTicks(clock, adv)
    /\ UNCHANGED <<pad_year, call_arg, pipeline_vars>>

\* an item as the LLM response gives it
Item(task, owner, deadline, priority, category) ==
    PyDict([k \in Keys |->
        CASE k = "task" -> task
          [] k = "owner" -> owner
          [] k = "deadline" -> deadline
          [] k = "priority" -> priority
          [] k = "category" -> category
          [] OTHER -> Absent])

\* the owner and the deadline of an item
OwnerDeadlines == {
    <<PyStr("Alice"), PyStr("2024-01-15")>>,
    <<PyStr(" NULL "), PyStr("null")>>,
    <<PyNone, Absent>>,
    <<PyInt(5), PyNone>> }

ItemPool ==
    {Item(task, od[1], od[2], priority, category) :
        task \in {PyStr(t) : t \in TaskTexts} \cup {PyStr(""), PyNone, Absent},
        od \in OwnerDeadlines,
        priority \in {PyStr(t) : t \in PriorityTexts} \cup {PyNone, PyInt(5), Absent},
        category \in {PyStr(t) : t \in CategoryTexts} \cup {PyNone, Absent}}

ValidateActionItem ==
    /\ stage = "call"
    /\ call_arg \in ItemPool
    /\ ~Called("validate_action_item")
    /\ calls' = Append(calls, Call("validate_action_item",
                                   validate_action_item(call_arg), clock, clock))
    /\ UNCHANGED <<clock, pad_year, call_arg, pipeline_vars>>

FormatDateIso8601 ==
    /\ stage = "call"
    /\ call_arg \in CallDeadlines
    /\ ~Called("format_date_iso8601")
    /\ calls' = Append(calls, Call("format_date_iso8601",
                                   format_date_iso8601(call_arg, pad_year), clock, clock))
    /\ UNCHANGED <<clock, pad_year, call_arg, pipeline_vars>>

InitCalls ==
    /\ \/ /\ call_arg \in CallDescriptions \cup CallDeadlines
          /\ clock \in CallInstants
          /\ pad_year \in BOOLEAN
       \/ /\ call_arg \in ItemPool
          /\ clock = PyDateTime(20240114, 86399)
          /\ pad_year = TRUE
    /\ calls = <<>>
    /\ stage = "call"
    /\ input_tasks = <<>>
    /\ tasks = <<>>
    /\ reads = <<>>
    /\ sorted_tasks = <<>>
    /\ order = <<>>
    /\ build_input = <<>>
    /\ built_from = ""
    /\ formatted_tasks = <<>>
    /\ exc = ""
    /\ renormalized = <<>>
    /\ action_items = <<>>

NextCalls ==
    \/ DetectUrgencyKeywords
    \/ ParseExplicitPriority
    \/ ParseDeadlineString
    \/ CalculateDeadlineProximityScore
    \/ FormatDateIso8601
    \/ ValidateActionItem

SpecCalls == InitCalls /\ [][NextCalls]_vars

(***************************************************************************)
(* The pipeline from the action items of one email: main.py steps 3 to 6.  *)
(***************************************************************************)
\* the name of the email file
filename == "email_001.txt"

\* main.py lines 93-96: task['source_email'] = filename
AddSourceEmail(items) ==
    [k \in 1..Len(items) |->
        PyDict([items[k].f EXCEPT !["source_email"] = PyStr(filename)])]

\* main.py steps 3 and 4: the items extracted from the email, with the
\* source email added, are the tasks of the run
ExtractActionItems ==
    /\ stage = "extract"
    /\ tasks' = AddSourceEmail(extract_action_items(action_items))
    /\ input_tasks' = tasks'
    /\ stage' = "input"
    /\ UNCHANGED <<clock, reads, pad_year, sorted_tasks, order, build_input, built_from,
                   formatted_tasks, exc, renormalized, call_arg, calls, action_items>>

\* the items of a response: complete items with deadlines of every kind,
\* items with missing or unknown values, an item without a task, an item
\* whose priority is null, and an entry that is no dict
ExtractPool == {
    Item(PyStr("p0 priority fix"), PyStr("Alice"), PyStr("2024-01-15"),
         PyStr("high"), PyStr("meeting")),
    Item(PyStr("p0 priority fix"), PyStr("Alice"), PyStr("today"),
         PyStr("HIGH"), PyStr("")),
    Item(PyStr("p0 priority fix"), PyStr("Alice"), PyNone,
         PyStr("critical"), PyStr("other")),
    Item(PyStr("Review urgent report"), PyNone, PyStr("next Friday"),
         PyStr("urgent"), PyStr("other")),
    Item(PyStr("Review urgent report"), PyNone, PyStr("2024-02-01"),
         PyStr("Low"), PyStr("Review")),
    Item(PyStr("Update documentation"), PyStr(" NULL "), PyStr("null"), Absent, Absent),
    Item(PyStr("Update documentation"), PyInt(5), PyInt(5), PyStr("Low"), PyStr("Review")),
    Item(PyStr("   "), PyStr("Alice"), PyStr("2024-01-15"), PyStr("high"), PyStr("meeting")),
    Item(PyStr("Update documentation"), PyStr("Alice"), PyStr("2024-01-15"), PyNone, PyStr("meeting")),
    PyObject(PyStr("call Bob")) }

InitExtract ==
    /\ action_items \in ListsUpTo(ExtractPool, MaxTasks)
    /\ input_tasks = <<>>
    /\ tasks = <<>>
    /\ clock \in StartInstants
    /\ reads = <<>>
    /\ pad_year \in BOOLEAN
    /\ stage = "extract"
    /\ sorted_tasks = <<>>
    /\ order = <<>>
    /\ build_input = <<>>
    /\ built_from = ""
    /\ formatted_tasks = <<>>
    /\ exc = ""
    /\ renormalized = <<>>
    /\ call_arg = PyNone
    /\ calls = <<>>

NextExtract == ExtractActionItems \/ PrioritizeTasks \/ BuildJsonStructure

SpecExtract == InitExtract /\ [][NextExtract]_vars

(***************************************************************************)
(* Properties                                                              *)
(***************************************************************************)
\* the tasks were ranked by prioritize_tasks, which returned
Ranked == stage = "prioritized" \/ built_from = "prioritized"

Score(task) == task.f["importance_score"].n
Priority(task) == task.f["priority"].s

\* the component scores of the k-th task scored, from the two clock reads
\* made for it
UrgencyScore(k) == detect_urgency_keywords(DictGet(tasks[k], "description", PyStr(""))).n
ExplicitScore(k) == parse_explicit_priority(DictGet(tasks[k], "description", PyStr("")))
DeadlineScore(k) ==
    calculate_deadline_proximity_score(DictGet(tasks[k], "deadline", PyNone),
                                       reads[k].now_parse, reads[k].now).n

\* C1: the list prioritize_tasks returns holds the input records ordered so
\* that of two positions i < j either the score at i is greater, or the
\* scores are equal and the record at i came first in the input list.
C1_StableDescendingOrder ==
    Ranked =>
        /\ Len(order) = Len(tasks)
        /\ Len(sorted_tasks) = Len(tasks)
        /\ \A i \in 1..Len(order) :
              order[i] \in 1..Len(tasks) /\ sorted_tasks[i] = tasks[order[i]]
        /\ \A i, j \in 1..Len(order) :
              i < j => \/ Score(sorted_tasks[i]) > Score(sorted_tasks[j])
                       \/ /\ Score(sorted_tasks[i]) = Score(sorted_tasks[j])
                          /\ order[i] < order[j]

\* two different records with the same score were ranked
C1_Witness ==
    /\ Ranked
    /\ \E i, j \in 1..Len(order) :
          /\ i < j
          /\ Score(sorted_tasks[i]) = Score(sorted_tasks[j])
          /\ sorted_tasks[i] # sorted_tasks[j]

\* C2: every importance score calculate_importance_score returns lies in
\* [0, 100].
C2_ScoreInRange ==
    \A k \in 1..Len(reads) :
        /\ tasks[k].f["importance_score"].t = "float"
        /\ Score(tasks[k]) >= 0
        /\ Score(tasks[k]) <= 100 * Pt

\* a task with every signal at its maximum was scored 100
C2_Witness ==
    \E k \in 1..Len(reads) :
        /\ UrgencyScore(k) = 100 * Pt
        /\ DeadlineScore(k) = 100 * Pt
        /\ ExplicitScore(k).n = 100 * Pt
        /\ Score(tasks[k]) = 100 * Pt

\* C3: with the default weights the score is urgency*0.3 + deadline*0.4 +
\* explicit*0.3 when an explicit priority pattern matched, and urgency*0.42
\* + deadline*0.58 when none matched and urgency or deadline is non-zero.
C3_WeightedSum ==
    \A k \in 1..Len(reads) :
        /\ ExplicitScore(k).t # "none" =>
              Score(tasks[k]) * 100 =
                  UrgencyScore(k) * 30 + DeadlineScore(k) * 40 + ExplicitScore(k).n * 30
        /\ (ExplicitScore(k).t = "none" /\ (UrgencyScore(k) # 0 \/ DeadlineScore(k) # 0)) =>
              Score(tasks[k]) * 100 = UrgencyScore(k) * 42 + DeadlineScore(k) * 58

\* a task with an urgency keyword and a deadline but no explicit priority
\* was scored
C3_Witness ==
    \E k \in 1..Len(reads) :
        /\ ExplicitScore(k).t = "none"
        /\ UrgencyScore(k) # 0
        /\ DeadlineScore(k) # 0
        /\ UrgencyScore(k) # DeadlineScore(k)

\* C4: a task with no signal at all (urgency 0, deadline score 0, explicit
\* priority absent) scores 50 and is medium; a task with an explicit
\* priority but urgency 0 and deadline score 0 keeps its formula value.
C4_NeutralDefault ==
    \A k \in 1..Len(reads) :
        (UrgencyScore(k) = 0 /\ DeadlineScore(k) = 0) =>
            IF ExplicitScore(k).t = "none"
            THEN Score(tasks[k]) = 50 * Pt /\ Priority(tasks[k]) = "medium"
            ELSE Score(tasks[k]) * 100 = ExplicitScore(k).n * 30

\* a task with no signal at all was scored
C4_Witness ==
    \E k \in 1..Len(reads) :
        /\ UrgencyScore(k) = 0
        /\ DeadlineScore(k) = 0
        /\ ExplicitScore(k).t = "none"
        /\ Score(tasks[k]) = 50 * Pt

TierRank(level) ==
    CASE level = "low" -> 0
      [] level = "medium" -> 1
      [] level = "high" -> 2
      [] level = "critical" -> 3
      [] OTHER -> 0 - 1

\* C5: the priority level is critical for a score >= 80, high for 60 <=
\* score < 80, medium for 30 <= score < 60 and low below 30, and so never
\* decreases as the score grows.
C5_TierThresholds ==
    /\ \A k \in 1..Len(reads) :
          LET sc == Score(tasks[k])
              level == Priority(tasks[k])
          IN  /\ sc >= 80 * Pt => level = "critical"
              /\ (sc >= 60 * Pt /\ sc < 80 * Pt) => level = "high"
              /\ (sc >= 30 * Pt /\ sc < 60 * Pt) => level = "medium"
              /\ sc < 30 * Pt => level = "low"
    /\ \A i, k \in 1..Len(reads) :
          Score(tasks[i]) <= Score(tasks[k]) =>
              TierRank(Priority(tasks[i])) <= TierRank(Priority(tasks[k]))

\* two tasks were scored at lower bounds of two tiers: exactly 80 and
\* exactly 60
C5_Witness ==
    \E i, k \in 1..Len(reads) :
        /\ Score(tasks[i]) = 80 * Pt /\ Priority(tasks[i]) = "critical"
        /\ Score(tasks[k]) = 60 * Pt /\ Priority(tasks[k]) = "high"

IsP0Today(task) ==
    /\ task.t = "dict"
    /\ task.f["description"] = PyStr("p0 priority fix")
    /\ task.f["deadline"] = PyStr("today")

\* C6 as stated: for the candidate "p0 priority fix" due "today" the explicit
\* score is 100, the deadline score 95 and the urgency score 0, so the
\* combined score is 68 and the tier high.
C6_AsStated ==
    \A k \in 1..Len(reads) :
        IsP0Today(tasks[k]) =>
            /\ ExplicitScore(k) = PyFloat(100 * Pt)
            /\ DeadlineScore(k) = 95 * Pt
            /\ UrgencyScore(k) = 0
            /\ Score(tasks[k]) = 68 * Pt
            /\ Priority(tasks[k]) = "high"

\* C6 amended: for the candidate "p0 priority fix" due "today" the explicit
\* score is 100 and the urgency score 60 (the keyword "priority"); the
\* deadline score is 95 and the combined score 86 when the clock shows the
\* same instant at both reads, 100 and 88 when it advanced in between; the
\* tier is critical in both cases.
C6_P0Today ==
    \A k \in 1..Len(reads) :
        IsP0Today(tasks[k]) =>
            /\ ExplicitScore(k) = PyFloat(100 * Pt)
            /\ UrgencyScore(k) = 60 * Pt
            /\ IF reads[k].now = reads[k].now_parse
               THEN DeadlineScore(k) = 95 * Pt /\ Score(tasks[k]) = 86 * Pt
               ELSE DeadlineScore(k) = 100 * Pt /\ Score(tasks[k]) = 88 * Pt
            /\ Priority(tasks[k]) = "critical"

\* the candidate was scored with no clock advance between the two reads
C6_Witness ==
    \E k \in 1..Len(reads) :
        /\ IsP0Today(tasks[k])
        /\ reads[k].now = reads[k].now_parse
        /\ Score(tasks[k]) = 86 * Pt

HasAllFields(task) ==
    task.t = "dict" /\ \A i \in 1..Len(REQUIRED_FIELDS) : task.f[REQUIRED_FIELDS[i]].t # "absent"

\* the positions of the records of the list that have all seven keys
CompletePositions(list) == {i \in 1..Len(list) : HasAllFields(list[i])}

\* the k-th of them
KthComplete(list, k) ==
    CHOOSE i \in CompletePositions(list) :
        Cardinality({j \in CompletePositions(list) : j <= i}) = k

BuildReturned == stage \in {"built", "build_raised"}

\* C7: for a list of records, build_json_structure does not raise and emits
\* one output record for exactly the input records that have all seven
\* keys, in their input order; a record missing a key is skipped and the
\* records after it are still processed.
C7_CompleteRecordsEmitted ==
    (BuildReturned /\ \A i \in 1..Len(build_input) : build_input[i].t = "dict") =>
        /\ stage = "built"
        /\ Len(formatted_tasks) = Cardinality(CompletePositions(build_input))
        /\ \A k \in 1..Len(formatted_tasks) :
              \A field \in {"task", "owner", "priority", "category", "source_email", "summary"} :
                  formatted_tasks[k].f[field] = build_input[KthComplete(build_input, k)].f[field]

\* a record missing a key came before a complete one, which was emitted
C7_Witness ==
    /\ stage = "built"
    /\ Len(build_input) = 2
    /\ build_input[1].t = "dict" /\ ~HasAllFields(build_input[1])
    /\ HasAllFields(build_input[2])
    /\ Len(formatted_tasks) = 1
    /\ formatted_tasks[1].f["task"] = build_input[2].f["task"]

\* a text in the calendar-date format YYYY-MM-DD
IsCalendarDateText(s) ==
    /\ Len(s) = 10
    /\ AllDigits(s, 1, 4) /\ Ch(s, 5) = "-"
    /\ AllDigits(s, 6, 2) /\ Ch(s, 8) = "-"
    /\ AllDigits(s, 9, 2)

\* C8: in every record build_json_structure emits, whatever the raw
\* deadline was, the deadline is null or a text in the format YYYY-MM-DD.
C8_DeadlineNullOrDate ==
    stage = "built" =>
        \A k \in 1..Len(formatted_tasks) :
            LET deadline == formatted_tasks[k].f["deadline"]
            IN  deadline = PyNone \/ (deadline.t = "str" /\ IsCalendarDateText(deadline.s))

\* C9: every record emitted for a task that prioritize_tasks ranked has a
\* priority among high, medium and low; "critical" is never emitted.
C9_OutputPriorityInSchema ==
    (stage = "built" /\ built_from = "prioritized") =>
        \A k \in 1..Len(formatted_tasks) :
            formatted_tasks[k].f["priority"] \in {PyStr("high"), PyStr("medium"), PyStr("low")}

\* C10: prioritize_tasks and build_json_structure never raise, whatever the
\* records and their field values are; each returns a list.
C10_NeverRaises ==
    /\ exc = ""
    /\ stage \notin {"prioritize_raised", "build_raised"}

CallsOf(fn) == {k \in 1..Len(calls) : calls[k].fn = fn}

\* seconds from now to the deadline; more than forty days either way are
\* taken as forty, which is beyond every bound of a bucket
SecondsUntil(deadline, now) ==
    Max(0 - 40, Min(40, Ordinal(deadline) - Ordinal(now))) * SecondsPerDay
        + deadline.m - now.m

\* the score of a deadline d days away, d * 86400 = secs
BucketOf(secs) ==
    IF secs < 0 THEN 100
    ELSE IF secs <= 1 * SecondsPerDay THEN 95
    ELSE IF secs <= 3 * SecondsPerDay THEN 85
    ELSE IF secs <= 7 * SecondsPerDay THEN 70
    ELSE IF secs <= 14 * SecondsPerDay THEN 50
    ELSE IF secs <= 30 * SecondsPerDay THEN 30
    ELSE 10

\* the instant a deadline value stands for at a call: the timestamp itself,
\* what parse_deadline_string makes of a text, None for anything else
DeadlineInstant(deadline, now_parse) ==
    IF deadline.t = "datetime" THEN deadline
    ELSE IF deadline.t = "str" THEN parse_deadline_string(deadline.s, now_parse)
    ELSE PyNone

ScoredAsBucket(ret, deadline_dt, now) ==
    /\ ret.t = "float"
    /\ IF deadline_dt.t = "none" THEN ret.n = 0
       ELSE ret.n = BucketOf(SecondsUntil(deadline_dt, now)) * Pt

\* C11: calculate_deadline_proximity_score never raises; it returns 0 for an
\* absent, unparseable or non-text non-timestamp deadline, and otherwise,
\* with d = deadline - now in days, 100 if d < 0, 95 if d <= 1, 85 if
\* d <= 3, 70 if d <= 7, 50 if d <= 14, 30 if d <= 30 and 10 beyond.
C11_ProximityBuckets ==
    \A k \in CallsOf("calculate_deadline_proximity_score") :
        ScoredAsBucket(calls[k].ret,
                       DeadlineInstant(calls[k].arg, calls[k].now_parse), calls[k].now)

\* a deadline exactly one day away was scored 95
C11_Witness ==
    \E k \in CallsOf("calculate_deadline_proximity_score") :
        /\ calls[k].arg = PyStr("2024-01-15")
        /\ calls[k].now = PyDateTime(20240114, 0)
        /\ calls[k].ret = PyFloat(95 * Pt)

\* the instant each date text of the model denotes in the format it is
\* written in; the relative texts denote the clock read or the day after
WrittenInstant(text, now) ==
    CASE text = "today" -> now
      [] text = "Tomorrow " -> AddOneDay(now)
      [] text = "2024-01-10" -> PyDateTime(20240110, 0)
      [] text = "2024-01-15" -> PyDateTime(20240115, 0)
      [] text = "2024-01-15T10:00:00" -> PyDateTime(20240115, 36000)
      [] text = "2024-01-15 10:00:00" -> PyDateTime(20240115, 36000)
      [] text = "01/17/2024" -> PyDateTime(20240117, 0)
      [] text = "01/02/2024" -> PyDateTime(20240102, 0)
      [] text = "20/01/2024" -> PyDateTime(20240120, 0)
      [] text = "2024/01/15" -> PyDateTime(20240115, 0)
      [] text = "Jan 15, 2024" -> PyDateTime(20240115, 0)
      [] text = "15 Jan 2024" -> PyDateTime(20240115, 0)
      [] text = "Jan 25, 2024" -> PyDateTime(20240125, 0)
      [] text = "January 15, 2024" -> PyDateTime(20240115, 0)
      [] text = "1 March 2024" -> PyDateTime(20240301, 0)
      [] text = "2024-02-01" -> PyDateTime(20240201, 0)
      [] text = "0999-01-15" -> PyDateTime(9990115, 0)
      [] OTHER -> PyNone

\* the year-first form with slashes, YYYY/MM/DD
YearFirstSlashTexts == {"2024/01/15"}

\* C12 as stated: parse_deadline_string returns the date of a text in each
\* of the enumerated formats, YYYY/MM/DD among them, and of today and
\* tomorrow, and None for empty text and text in none of the formats.
C12_AsStated ==
    \A k \in CallsOf("parse_deadline_string") :
        calls[k].ret = WrittenInstant(calls[k].arg.s, calls[k].now_parse)

\* C12 amended: parse_deadline_string returns the date of a text in the
\* formats ISO date, ISO date-time with seconds, space-separated
\* date-time, MM/DD/YYYY, DD/MM/YYYY, long and abbreviated month forms, and
\* of today and tomorrow; it returns None, without raising, for empty text,
\* for text in none of these formats and for text in the form YYYY/MM/DD.
C12_EnumeratedFormats ==
    \A k \in CallsOf("parse_deadline_string") :
        calls[k].ret =
            IF calls[k].arg.s \in YearFirstSlashTexts THEN PyNone
            ELSE WrittenInstant(calls[k].arg.s, calls[k].now_parse)

\* parse_deadline_string was called on a text in the form YYYY/MM/DD and
\* returned None
C12_Witness ==
    \E k \in CallsOf("parse_deadline_string") :
        /\ calls[k].arg.s \in YearFirstSlashTexts
        /\ calls[k].ret = PyNone

\* the positions, in declaration order, of the patterns that match the
\* lowercased text
MatchingPatterns(text) ==
    {k \in 1..Len(EXPLICIT_PRIORITY_PATTERNS) :
        ReSearch(EXPLICIT_PRIORITY_PATTERNS[k], Lower(text))}

MatchingPatternsOf == Tabulate(DescriptionTexts, MatchingPatterns)

FirstOf(positions) == CHOOSE k \in positions : \A j \in positions : k <= j

WeightOfFirst(positions) ==
    IF positions = {} THEN PyNone
    ELSE PyFloat(EXPLICIT_PRIORITY_PATTERNS[FirstOf(positions)].score * Pt)

\* C13: parse_explicit_priority returns the weight of the first pattern, in
\* declaration order, that matches the lowercased text, and None if no
\* pattern matches or the text is empty; a later-declared pattern that also
\* matches never decides, even if its weight is higher.
C13_FirstPatternWins ==
    \A k \in CallsOf("parse_explicit_priority") :
        calls[k].ret =
            IF calls[k].arg.t = "none" \/ calls[k].arg.s = "" THEN PyNone
            ELSE WeightOfFirst(Lookup(MatchingPatternsOf, calls[k].arg.s))

\* a text matched by "low priority" (25) and by the later-declared "p0"
\* (100) got 25
C13_Witness ==
    \E k \in CallsOf("parse_explicit_priority") :
        /\ calls[k].arg = PyStr("low priority but p0")
        /\ Lookup(MatchingPatternsOf, "low priority but p0") = {4, 5}
        /\ calls[k].ret = PyFloat(25 * Pt)

\* the weights of the keywords that occur in the lowercased text
OccurringWeights(text) ==
    {URGENCY_KEYWORDS[k].score : k \in {j \in 1..Len(URGENCY_KEYWORDS) :
                                          Contains(Lower(text), URGENCY_KEYWORDS[j].kw)}}

OccurringWeightsOf == Tabulate(DescriptionTexts, OccurringWeights)

Greatest(weights) ==
    IF weights = {} THEN 0 ELSE CHOOSE w \in weights : \A v \in weights : v <= w

\* C14: detect_urgency_keywords returns the greatest weight among the
\* keywords that occur as a substring of the lowercased text, whatever the
\* order of the keywords, and 0 when none occurs or the text is empty; the
\* result lies in [0, 100].
C14_MaximumWeight ==
    \A k \in CallsOf("detect_urgency_keywords") :
        /\ calls[k].ret.t = "float"
        /\ calls[k].ret.n >= 0 /\ calls[k].ret.n <= 100 * Pt
        /\ calls[k].ret.n =
              IF calls[k].arg.t = "none" \/ calls[k].arg.s = "" THEN 0
              ELSE Greatest(Lookup(OccurringWeightsOf, calls[k].arg.s)) * Pt

\* a text with the keyword "priority" (60) and the later keyword "time
\* sensitive" (80) got 80
C14_Witness ==
    \E k \in CallsOf("detect_urgency_keywords") :
        /\ calls[k].arg = PyStr("medium priority, time sensitive")
        /\ Lookup(OccurringWeightsOf, "medium priority, time sensitive") = {60, 80}
        /\ calls[k].ret = PyFloat(80 * Pt)

\* the item has a non-empty task and validate_action_item returned a dict
Accepted(call) == call.ret.t = "dict"

\* the category of the item is a text outside the five categories
CategoryOutside(item) ==
    /\ item.f["category"].t = "str"
    /\ ~InSeq(Lookup(LowerOf, item.f["category"].s), VALID_CATEGORIES)

\* the category the keywords named in the claim give: meeting/call/sync,
\* due/deadline/submit/deliver, approve/authorization/sign-off,
\* review/feedback/check, in this order of precedence
StatedCategory(task) ==
    LET task_lower == Lower(task)
    IN  IF AnyWordIn(<<"meeting", "call", "sync">>, task_lower) THEN "meeting"
        ELSE IF AnyWordIn(<<"due", "deadline", "submit", "deliver">>, task_lower)
        THEN "deadline"
        ELSE IF AnyWordIn(<<"approve", "authorization", "sign-off">>, task_lower)
        THEN "approval"
        ELSE IF AnyWordIn(<<"review", "feedback", "check">>, task_lower) THEN "review"
        ELSE "follow-up"

StatedCategoryOf == Tabulate(TaskTexts, StatedCategory)

\* the category of each task text of the model by the keywords
\* meet/call/discussion/sync, due/deadline/submit/deliver,
\* approve/authorization/"sign off", review/feedback/check, in this order
KeywordCategory(task) ==
    CASE task = "Schedule a sync with Bob" -> "meeting"
      [] task = "Prepare discussion notes" -> "meeting"
      [] task = "meet Bob" -> "meeting"
      [] task = "Submit review of call" -> "meeting"
      [] task = "Submit the report" -> "deadline"
      [] task = "Approve budget and review plan" -> "approval"
      [] task = "Get sign off from legal" -> "approval"
      [] task = "Check feedback" -> "review"
      [] task = "Get sign-off from legal" -> "follow-up"
      [] task = "  Email Carol  " -> "follow-up"
      [] task = "p0 priority fix" -> "follow-up"
      [] task = "Review urgent report" -> "review"
      [] task = "Update documentation" -> "follow-up"

\* C15 as stated: the category of an accepted item is one of the five, and
\* a category outside the five is inferred from the task text by the
\* keywords meeting/call/sync, due/deadline/submit/deliver,
\* approve/authorization/sign-off, review/feedback/check, else follow-up.
C15_AsStated ==
    \A k \in CallsOf("validate_action_item") :
        Accepted(calls[k]) =>
            /\ InSeq(calls[k].ret.f["category"].s, VALID_CATEGORIES)
            /\ CategoryOutside(calls[k].arg) =>
                  calls[k].ret.f["category"] =
                      PyStr(Lookup(StatedCategoryOf, calls[k].arg.f["task"].s))

\* C15 amended: the category of an accepted item is one of the five, and a
\* category text outside the five (compared in lower case) is inferred
\* from the task text by the keywords meet/call/discussion/sync, then
\* due/deadline/submit/deliver, then approve/authorization/"sign off"
\* (with a space), then review/feedback/check, else follow-up.
C15_CategoryInferred ==
    \A k \in CallsOf("validate_action_item") :
        Accepted(calls[k]) =>
            /\ calls[k].ret.f["category"].t = "str"
            /\ InSeq(calls[k].ret.f["category"].s, VALID_CATEGORIES)
            /\ CategoryOutside(calls[k].arg) =>
                  calls[k].ret.f["category"] =
                      PyStr(KeywordCategory(calls[k].arg.f["task"].s))

\* an item with the category "other" and a task that names a discussion
\* was accepted with the category meeting
C15_Witness ==
    \E k \in CallsOf("validate_action_item") :
        /\ calls[k].arg.f["task"] = PyStr("Prepare discussion notes")
        /\ calls[k].arg.f["category"] = PyStr("other")
        /\ Accepted(calls[k])
        /\ calls[k].ret.f["category"] = PyStr("meeting")

\* the item has a task that is not empty
HasTask(item) ==
    /\ item.f["task"].t = "str"
    /\ Lookup(StripOf, item.f["task"].s) # ""

\* C16: for an item with a non-empty task validate_action_item returns the
\* item and does not raise, whatever the priority field is (absent, None,
\* not a text, any text), and the priority returned is high, medium or
\* low: the value itself in lower case if it is one of them, else medium.
C16_PriorityCoerced ==
    \A k \in CallsOf("validate_action_item") :
        (HasTask(calls[k].arg) /\ calls[k].arg.f["category"].t \in {"str", "absent"}) =>
            /\ calls[k].ret.t = "dict"
            /\ calls[k].ret.f["priority"] =
                  IF /\ calls[k].arg.f["priority"].t = "str"
                     /\ InSeq(Lookup(LowerOf, calls[k].arg.f["priority"].s), VALID_PRIORITIES)
                  THEN PyStr(Lookup(LowerOf, calls[k].arg.f["priority"].s))
                  ELSE PyStr("medium")

C18_CanonicalDate ==
    \A k \in CallsOf("format_date_iso8601") :
        /\ (calls[k].arg.t = "str" /\ IsCalendarDateText(calls[k].arg.s)) =>
              calls[k].ret = calls[k].arg
        /\ calls[k].arg \in {PyStr("Jan 15, 2024"), PyStr("15 Jan 2024")} =>
              calls[k].ret = PyStr("2024-01-15")

\* the deadline texts of the model the two paths disagree on: the form
\* YYYY/MM/DD, and today and tomorrow
RelativeTexts == {"today", "Tomorrow "}

\* C19: the two date-parsing paths disagree in both directions: for a text
\* in the form YYYY/MM/DD parse_deadline_string returns None and the
\* proximity score is 0, while format_date_iso8601 converts it to
\* YYYY-MM-DD; for today and tomorrow parse_deadline_string returns a
\* date and the proximity score is not 0, while format_date_iso8601 returns
\* the raw text.
C19_PathsDisagree ==
    /\ \A k \in CallsOf("parse_deadline_string") :
          /\ calls[k].arg.s \in YearFirstSlashTexts => calls[k].ret = PyNone
          /\ calls[k].arg.s \in RelativeTexts => calls[k].ret.t = "datetime"
    /\ \A k \in CallsOf("calculate_deadline_proximity_score") :
          calls[k].arg.t = "str" =>
              /\ calls[k].arg.s \in YearFirstSlashTexts => calls[k].ret = PyFloat(0)
              /\ calls[k].arg.s \in RelativeTexts => calls[k].ret.n >= 95 * Pt
    /\ \A k \in CallsOf("format_date_iso8601") :
          calls[k].arg.t = "str" =>
              /\ calls[k].arg.s \in YearFirstSlashTexts =>
                    calls[k].ret = PyStr("2024-01-15")
              /\ calls[k].arg.s \in RelativeTexts => calls[k].ret = calls[k].arg

\* both paths were taken on the text "2024/01/15": parse_deadline_string
\* returned None and format_date_iso8601 a date
C19_Witness ==
    /\ call_arg = PyStr("2024/01/15")
    /\ \E k \in CallsOf("parse_deadline_string") : calls[k].ret = PyNone
    /\ \E k \in CallsOf("calculate_deadline_proximity_score") : calls[k].ret = PyFloat(0)
    /\ \E k \in CallsOf("format_date_iso8601") : calls[k].ret = PyStr("2024-01-15")

\* C20: for the three tasks of the docstring example of prioritize_tasks,
\* whatever the current date, the first record of the list returned has
\* the priority critical.
C20_DocstringExample ==
    (stage = "prioritized" /\ input_tasks = DocstringExample) =>
        Priority(sorted_tasks[1]) = "critical"

\* C21: a deadline given as the text "today" always gets the proximity
\* score 95 and never 100: the instant parse_deadline_string reads for it
\* is never earlier than the instant calculate_deadline_proximity_score
\* reads afterwards, however far the clock advances between the two reads.
C21_TodayDueToday ==
    \A k \in CallsOf("calculate_deadline_proximity_score") :
        calls[k].arg = PyStr("today") =>
            /\ calls[k].ret = PyFloat(95 * Pt)
            /\ SecondsUntil(calls[k].now_parse, calls[k].now) >= 0

\* a numeric date with slashes and the year last, NN/NN/YYYY
IsSlashDateText(s) ==
    /\ Len(s) = 10
    /\ AllDigits(s, 1, 2) /\ Ch(s, 3) = "/"
    /\ AllDigits(s, 4, 2) /\ Ch(s, 6) = "/"
    /\ AllDigits(s, 7, 4)

FirstField(s) == Num(s, 1, 2)
SecondField(s) == Num(s, 4, 2)
YearField(s) == Num(s, 7, 4)

\* the day a call of parse_deadline_string or of format_date_iso8601
\* returned, as the number YYYYMMDD; 0 when it returned no date
ReturnedDay(call) ==
    CASE call.ret.t = "datetime" -> call.ret.n
      [] call.ret.t = "str" /\ call.ret # call.arg /\ IsCalendarDateText(call.ret.s) ->
            Num(call.ret.s, 1, 4) * 10000 + Num(call.ret.s, 6, 2) * 100
                + Num(call.ret.s, 9, 2)
      [] OTHER -> 0

\* the month-first and the day-first reading of a slash date
MonthFirstDay(s) == YearField(s) * 10000 + FirstField(s) * 100 + SecondField(s)
DayFirstDay(s) == YearField(s) * 10000 + SecondField(s) * 100 + FirstField(s)

\* C22: parse_deadline_string and format_date_iso8601 try the formats in
\* the declared order and the first success wins: a numeric slash date
\* whose first two fields are both at most 12 is read as MM/DD/YYYY, and
\* the reading DD/MM/YYYY is used only when the first field is greater
\* than 12 and the second is a month.
C22_MonthFirstWins ==
    \A k \in CallsOf("parse_deadline_string") \cup CallsOf("format_date_iso8601") :
        (calls[k].arg.t = "str" /\ IsSlashDateText(calls[k].arg.s)) =>
            LET text == calls[k].arg.s
            IN  /\ (FirstField(text) \in 1..12 /\ SecondField(text) \in 1..12) =>
                      ReturnedDay(calls[k]) = MonthFirstDay(text)
                /\ (ReturnedDay(calls[k]) = DayFirstDay(text)
                        /\ DayFirstDay(text) # MonthFirstDay(text)) =>
                      (FirstField(text) > 12 /\ SecondField(text) \in 1..12)
                /\ ReturnedDay(calls[k]) \in {0, MonthFirstDay(text), DayFirstDay(text)}

\* both functions were called on 01/02/2024, which both numeric formats
\* read, and returned 2 January
C22_Witness ==
    /\ call_arg = PyStr("01/02/2024")
    /\ \E k \in CallsOf("parse_deadline_string") : calls[k].ret = PyDateTime(20240102, 0)
    /\ \E k \in CallsOf("format_date_iso8601") : calls[k].ret = PyStr("2024-01-02")

\* the keys a record has
KeysOf(task) == {k \in Keys : task.f[k].t # "absent"}

\* the extraction was made
Extracted == stage # "extract"

\* C23: every record validate_action_item returns has exactly the keys
\* task, owner, deadline, priority and category; with the source_email the
\* pipeline adds and the importance_score prioritize_tasks adds it still has
\* no summary, so build_json_structure drops every record and the output
\* list of the pipeline extract, prioritize, build is empty for every input.
C23_PipelineOutputEmpty ==
    /\ Extracted =>
          \A k \in 1..Len(input_tasks) :
              KeysOf(input_tasks[k]) =
                  {"task", "owner", "deadline", "priority", "category", "source_email"}
    /\ stage = "prioritized" =>
          /\ Len(sorted_tasks) = Len(input_tasks)
          /\ \A k \in 1..Len(sorted_tasks) :
                KeysOf(sorted_tasks[k]) =
                    {"task", "owner", "deadline", "priority", "category", "source_email",
                     "importance_score"}
    /\ stage \notin {"prioritize_raised", "build_raised"}
    /\ stage = "built" => formatted_tasks = <<>>

\* two items were extracted and ranked, and the output built from them
C23_Witness ==
    /\ stage = "built"
    /\ built_from = "prioritized"
    /\ Len(action_items) >= 2
    /\ Len(build_input) = Len(action_items)
    /\ formatted_tasks = <<>>

\* the text of a record says something: it has an urgency keyword and an
\* explicit priority pattern
TextHasSignals(text) ==
    /\ Lookup(OccurringWeightsOf, text) # {}
    /\ Lookup(MatchingPatternsOf, text) # {}

\* C24: calculate_importance_score reads the text only from the key
\* description: a record without that key, as every record
\* validate_action_item returns, is scored 0.58 * deadline_score when its
\* deadline parses and 50 otherwise, whatever its task text says.
C24_TaskTextIgnored ==
    \A k \in 1..Len(reads) :
        LET deadline == DictGet(tasks[k], "deadline", PyNone)
            deadline_dt == DeadlineInstant(deadline, reads[k].now_parse)
        IN  /\ tasks[k].f["description"].t = "absent"
            /\ tasks[k].f["importance_score"] =
                  IF deadline_dt.t = "none" THEN PyFloat(50 * Pt)
                  ELSE PyFloat(BucketOf(SecondsUntil(deadline_dt, reads[k].now)) * 58)

\* a record whose task text has an urgency keyword and an explicit
\* priority was scored from its deadline alone, and another one 50
C24_Witness ==
    /\ \E k \in 1..Len(reads) :
          /\ TextHasSignals(tasks[k].f["task"].s)
          /\ tasks[k].f["deadline"] = PyStr("2024-01-15")
          /\ tasks[k].f["importance_score"] = PyFloat(95 * 58)
    /\ \E k \in 1..Len(reads) :
          /\ TextHasSignals(tasks[k].f["task"].s)
          /\ tasks[k].f["deadline"] = PyNone
          /\ tasks[k].f["importance_score"] = PyFloat(50 * Pt)

\* order is a permutation of the positions of the list
IsPermutation(positions, len) ==
    /\ Len(positions) = len
    /\ \A i \in 1..len : \E j \in 1..len : positions[j] = i

\* C25: prioritize_tasks returns a permutation of its input: the list
\* returned has the length and the records of the input (the empty list for
\* the empty list), each record has the priority
\* map_score_to_priority_level gives its importance_score, and no field
\* other than importance_score and priority is added, removed or changed.
C25_PermutationOfInput ==
    Ranked =>
        /\ Len(sorted_tasks) = Len(input_tasks)
        /\ Len(tasks) = Len(input_tasks)
        /\ IsPermutation(order, Len(input_tasks))
        /\ \A i \in 1..Len(sorted_tasks) :
              /\ sorted_tasks[i] = tasks[order[i]]
              /\ sorted_tasks[i].f["importance_score"].t = "float"
              /\ Priority(sorted_tasks[i]) =
                    map_score_to_priority_level(sorted_tasks[i].f["importance_score"])
              /\ \A key \in Keys \ {"importance_score", "priority"} :
                    sorted_tasks[i].f[key] = input_tasks[order[i]].f[key]

\* two different records were ranked and changed places, one of them
\* lacking a field
C25_Witness ==
    /\ stage = "prioritized"
    /\ order = <<2, 1>>
    /\ sorted_tasks[1].f["description"] # sorted_tasks[2].f["description"]
    /\ \E i \in 1..2 : sorted_tasks[i].f["summary"].t = "absent"

\* the text of the description of a ranked record
DescriptionText(task) == DictGet(task, "description", PyStr("")).s

\* the deadline of a ranked record cannot be parsed
NoParseableDeadline(task) ==
    DeadlineInstant(DictGet(task, "deadline", PyNone), clock).t = "none"

\* the weights of the urgency keywords and the positions of the explicit
\* priority patterns found in the description of a ranked record
KeywordsFound(task) ==
    IF DescriptionText(task) = "" THEN {}
    ELSE Lookup(OccurringWeightsOf, DescriptionText(task))

PatternsFound(task) ==
    IF DescriptionText(task) = "" THEN {}
    ELSE Lookup(MatchingPatternsOf, DescriptionText(task))

\* a record with no signal at all
NoSignal(task) ==
    /\ KeywordsFound(task) = {}
    /\ PatternsFound(task) = {}
    /\ NoParseableDeadline(task)

\* a record whose only evidence is an urgency keyword
UrgencyOnly(task) ==
    /\ KeywordsFound(task) # {}
    /\ PatternsFound(task) = {}
    /\ NoParseableDeadline(task)

\* C26: in a ranked list a task with no signal at all (score 50) stands
\* before every task whose only evidence is an urgency keyword, which
\* scores at most 100 * 0.42 = 42.
C26_NoSignalBeforeUrgencyOnly ==
    Ranked =>
        \A i, j \in 1..Len(sorted_tasks) :
            (NoSignal(sorted_tasks[i]) /\ UrgencyOnly(sorted_tasks[j])) =>
                /\ i < j
                /\ Score(sorted_tasks[i]) = 50 * Pt
                /\ Score(sorted_tasks[j]) <= 42 * Pt
                /\ Score(sorted_tasks[j]) < Score(sorted_tasks[i])

\* a task with the keyword of the greatest weight was ranked after a task
\* with no signal that came after it in the input
C26_Witness ==
    /\ stage = "prioritized"
    /\ order = <<2, 1>>
    /\ NoSignal(sorted_tasks[1])
    /\ UrgencyOnly(sorted_tasks[2])
    /\ Score(sorted_tasks[2]) = 42 * Pt

====
